---- MODULE Spec2Model ----
(***************************************************************************)
(* A model of one Orluncoin node: the transaction / UTxO engine            *)
(* (transaction.ts), the chain engine (blockchain.ts), the transaction     *)
(* pool (transactionPool.ts), the wallet's transaction builder (wallet.ts) *)
(* and the peer message handlers (p2p.ts).  The node's peers and its HTTP  *)
(* clients are the environment: they supply frames and commands.           *)
(*                                                                         *)
(* Abstractions.  A string is the sequence of its characters, and a number *)
(* interpolated into a template literal becomes its decimal digits, so     *)
(* that two lists of fields with the same concatenation are hashed alike.  *)
(* SHA-256 is injective on strings: the digest of s is s between the two   *)
(* marks "<" and ">", which occur in no other string of the model.  An     *)
(* ECDSA signature is the pair <<signer's public point, message>>, the     *)
(* empty signature '' and the empty txOutId '' are the empty sequence.  A  *)
(* private key is named by the address it derives.  A public point has     *)
(* one hex digit for x and one for y, so that its uncompressed encoding    *)
(* has AddressLen characters instead of 130; the curve holds, for each x,  *)
(* the two points whose y are the even and the odd number of the pair      *)
(* {2 * (x \div 2), 2 * (x \div 2) + 1}.  A value whose JavaScript type    *)
(* the code tests or whose text it hashes carries its type and its text;   *)
(* a block carries the list of its own members, in insertion order.        *)
(***************************************************************************)
EXTENDS Integers, Sequences, FiniteSets, TLC

VARIABLES blockchain,       \* blockchain.ts: let blockchain: Block[]
          unspentTxOuts,    \* blockchain.ts: let unspentTxOuts: UnspentTxOut[]
          transactionPool,  \* transactionPool.ts: let transactionPool: Transaction[]
          sockets,          \* p2p.ts: const sockets: Set<WebSocket>
          timers,           \* pending setTimeout callbacks of initConnection
          now,              \* the wall clock read by Date.now()
          sent,             \* the frames written to sockets by the last step, in send order
          last,             \* the handler that ran last and how it ended; idle between handlers
          wallet            \* wallet.ts: the file at privateKeyLocation

vars == <<blockchain, unspentTxOuts, transactionPool, sockets, timers, now, sent, last, wallet>>

(***************************************************************************)
(* Program constants                                                       *)
(***************************************************************************)
COINBASE_AMOUNT == 50
BLOCK_GENERATION_INTERVAL == 10
DIFFICULTY_ADJUSTMENT_INTERVAL == 10
\* Time is counted in ms from the genesis block's timestamp, 1734667274522: the
\* code compares and subtracts timestamps and hashes their digits, so the shift
\* changes no comparison and keeps distinct timestamps distinct in a digest
\* (TLC's integers are 32 bits wide).
GenesisTimestamp == 0
TimestampTolerance == 60
PoolQueryDelay == 500

QUERY_LATEST == 0
QUERY_ALL == 1
RESPONSE_BLOCKCHAIN == 2
QUERY_TRANSACTION_POOL == 3
RESPONSE_TRANSACTION_POOL == 4

(***************************************************************************)
(* Bounds of the model                                                     *)
(***************************************************************************)
MaxChain == 3        \* blocks in the local chain and in a received chain
MaxPool == 1         \* transactions in the pool
MaxTicks == 1        \* advances of the wall clock
MaxZeroBits == 2     \* leading zero bits a modelled digest can have
MaxRecvTxs == 2      \* transactions in a received RESPONSE_TRANSACTION_POOL

StartDelay == 1000   \* the node starts this long after the genesis timestamp
ClockStep == 100     \* one advance of the wall clock, in ms
MaxTimers == 1       \* pending setTimeout callbacks
MaxFork == 2         \* blocks each of two nodes mines before they connect
GapStep == 24000     \* ms the clock advances by between two mined blocks
MaxLocalPool == 2    \* transactions in the pool of a node that replaceChain is applied on
MaxWalletPool == 3   \* transactions in the pool of a node that sends payments
MaxWalletChain == 4  \* blocks in the chain of a node that mines its own payments

(***************************************************************************)
(* Addresses and keys                                                      *)
(***************************************************************************)
AddressLen == 4           \* characters of an address; 130 in validateAddress

GenesisAddress == <<"0", "4", "b", "a">>  \* the address paid by the genesis coinbase
MyAddress == <<"0", "4", "a", "a">>       \* the address of the key initWallet() wrote at start-up
PeerAddress == <<"0", "4", "c", "c">>     \* an address held by peers
OtherAddress == <<"0", "4", "e", "e">>    \* the address of another key initWallet() may write
BadAddress == <<"x">>                     \* a string that encodes no public key

\* PeerAddress in the compressed encoding, and in upper case.
CompressedPeerAddress == <<"0", "2", "c">>
UpperPeerAddress == <<"0", "4", "C", "C">>

EmptyStr == <<>>

(***************************************************************************)
(* Strings                                                                 *)
(***************************************************************************)
Digits == <<"0", "1", "2", "3", "4", "5", "6", "7", "8", "9">>

RECURSIVE NatToStr(_)
NatToStr(n) ==
    IF n < 10 THEN <<Digits[n + 1]>>
    ELSE NatToStr(n \div 10) \o <<Digits[(n % 10) + 1]>>

\* `${n}` for a number n
ToStr(n) == (IF n < 0 THEN <<"-">> ELSE <<>>) \o NatToStr(IF n < 0 THEN 0 - n ELSE n)

\* `${value}` for an object: '[object Object]'
ObjectToStr ==
    <<"[", "o", "b", "j", "e", "c", "t", " ", "O", "b", "j", "e", "c", "t", "]">>

\* `${array}` for an array of objects: the elements' strings joined by ','
RECURSIVE ArrayToStr(_)
ArrayToStr(array) ==
    IF array = <<>> THEN EmptyStr
    ELSE IF Len(array) = 1 THEN ObjectToStr
    ELSE ObjectToStr \o <<",">> \o ArrayToStr(Tail(array))

\* A value that the code is handed where it expects an array of transactions: its
\* type (an array, null, a plain object, undefined, a number or a string), its
\* elements when it is an array, and the string `${value}`.
JsArray(elements) ==
    [type |-> "array", elements |-> elements, text |-> ArrayToStr(elements)]

JsNull == [type |-> "null", elements |-> <<>>, text |-> <<"n", "u", "l", "l">>]

\* {}, an object without members.
JsObject == [type |-> "object", elements |-> <<>>, text |-> ObjectToStr]

JsUndefined ==
    [type |-> "undefined", elements |-> <<>>,
     text |-> <<"u", "n", "d", "e", "f", "i", "n", "e", "d">>]

JsNumber(n) == [type |-> "number", elements |-> <<>>, text |-> ToStr(n)]

JsString(s) == [type |-> "string", elements |-> <<>>, text |-> s]

\* typeof of a value of this type: 'object' for an array and for null as well.
TypeOfValue(type) == IF type \in {"array", "null", "object"} THEN "object" ELSE type

\* sha256(s).toString(): the hashed string between the digest marks.
sha256(s) == <<"<">> \o s \o <<">">>

Last(s) == s[Len(s)]

RECURSIVE SumSeq(_)
SumSeq(s) == IF s = <<>> THEN 0 ELSE Head(s) + SumSeq(Tail(s))

(***************************************************************************)
(* transaction.ts: entities                                                *)
(***************************************************************************)
TxIn(txOutId, txOutIndex, signature) ==
    [txOutId |-> txOutId, txOutIndex |-> txOutIndex, signature |-> signature]

TxOut(address, amount) == [address |-> address, amount |-> amount]

UnspentTxOut(txOutId, txOutIndex, address, amount) ==
    [txOutId |-> txOutId, txOutIndex |-> txOutIndex, address |-> address, amount |-> amount]

Transaction(id, txIns, txOuts) == [id |-> id, txIns |-> txIns, txOuts |-> txOuts]

\* txIns.map(`${txOutId}${txOutIndex}`).join('')
RECURSIVE TxInContent(_)
TxInContent(txIns) ==
    IF txIns = <<>> THEN EmptyStr
    ELSE Head(txIns).txOutId \o ToStr(Head(txIns).txOutIndex) \o TxInContent(Tail(txIns))

\* txOuts.map(`${address}${amount}`).join('')
RECURSIVE TxOutContent(_)
TxOutContent(txOuts) ==
    IF txOuts = <<>> THEN EmptyStr
    ELSE Head(txOuts).address \o ToStr(Head(txOuts).amount) \o TxOutContent(Tail(txOuts))

\* sha256(txInContent + txOutContent)
getTransactionId(transaction) ==
    sha256(TxInContent(transaction.txIns) \o TxOutContent(transaction.txOuts))

\* ec.keyFromPrivate(privateKey).getPublic(): a key is named by its address.
getPublicKey(privateKey) == privateKey

\* key.sign(id).toDER('hex')
Sign(privateKey, id) == <<getPublicKey(privateKey), id>>

\* Length, /^[a-fA-F0-9]+$/ and the '04' prefix.
HexDigits ==
    {"0", "1", "2", "3", "4", "5", "6", "7", "8", "9",
     "a", "b", "c", "d", "e", "f", "A", "B", "C", "D", "E", "F"}

validateAddress(address) ==
    /\ Len(address) = AddressLen
    /\ \A i \in 1..Len(address) : address[i] \in HexDigits
    /\ address[1] = "0" /\ address[2] = "4"

\* parseInt(c, 16): hex digits count in either case; any other character counts 0
\* in a coordinate and is no format byte.
HexValue(c) ==
    CASE c = "0" -> 0 [] c = "1" -> 1 [] c = "2" -> 2 [] c = "3" -> 3 [] c = "4" -> 4
      [] c = "5" -> 5 [] c = "6" -> 6 [] c = "7" -> 7 [] c = "8" -> 8 [] c = "9" -> 9
      [] c \in {"a", "A"} -> 10 [] c \in {"b", "B"} -> 11 [] c \in {"c", "C"} -> 12
      [] c \in {"d", "D"} -> 13 [] c \in {"e", "E"} -> 14 [] c \in {"f", "F"} -> 15
      [] OTHER -> 0

HexChar(v) ==
    <<"0", "1", "2", "3", "4", "5", "6", "7", "8", "9", "a", "b", "c", "d", "e", "f">>[v + 1]

\* point.encode('hex', false): '04', x, y in lower-case hex.
EncodePoint(x, y) == <<"0", "4", HexChar(x), HexChar(y)>>

\* curve.pointFromX(x, odd).  On the curve of the model every x has the two roots
\* 2 * (x \div 2), which is even, and the odd one next to it.
pointFromX(x, odd) == 2 * (x \div 2) + (IF odd THEN 1 ELSE 0)

\* curve.decodePoint(address, 'hex'), as ec.keyFromPublic calls it.  A string of odd
\* length is read with a '0' in front (with AddressLen characters for 130 the
\* compressed form has AddressLen - 1 characters, and is told from a string one
\* character short by its leading '0').  The format byte 04, 06 or 07 is followed by
\* x and y, which are taken as they are (06 asserts an even y and 07 an odd one);
\* 02 or 03 is followed by x alone and names the even or the odd root.  Any other
\* format byte or length raises 'Unknown point format'.  A decoded point is
\* written as the address that getPublicKey yields for it.
decodePoint(address) ==
    LET odd == IF Len(address) = AddressLen - 1 THEN address[1] # "0"
               ELSE Len(address) % 2 = 1
        padded == IF odd THEN <<"0">> \o address ELSE address
        none == [threw |-> TRUE, point |-> EmptyStr]
    IN IF Len(padded) < 2 \/ padded[1] # "0" THEN none
       ELSE IF padded[2] \in {"4", "6", "7"} /\ Len(padded) = AddressLen
       THEN LET x == HexValue(padded[3])
                y == HexValue(padded[4])
            IN IF (padded[2] = "6" /\ y % 2 # 0) \/ (padded[2] = "7" /\ y % 2 # 1) THEN none
               ELSE [threw |-> FALSE, point |-> EncodePoint(x, y)]
       ELSE IF padded[2] \in {"2", "3"} /\ Len(padded) = AddressLen - 1
       THEN LET x == HexValue(padded[3])
            IN [threw |-> FALSE, point |-> EncodePoint(x, pointFromX(x, padded[2] = "3"))]
       ELSE none

\* ec.keyFromPublic(address, 'hex').verify(id, signature): "true" when the
\* signature was made over id with the key of the point that the address encodes,
\* "false" when it was not, and "threw" when the address encodes no point or the
\* signature is no DER signature ('Signature without r or s').
Verify(address, id, signature) ==
    LET key == decodePoint(address)
    IN IF key.threw \/ signature = EmptyStr THEN "threw"
       ELSE IF signature = <<key.point, id>> THEN "true"
       ELSE "false"

\* Position of the first entry with the key (txOutId, txOutIndex), 0 when none:
\* unspentTxOuts.find(...)
FindIndex(txOutId, txOutIndex, uTxOs) ==
    LET hits == {i \in 1..Len(uTxOs) :
                    uTxOs[i].txOutId = txOutId /\ uTxOs[i].txOutIndex = txOutIndex}
    IN IF hits = {} THEN 0 ELSE CHOOSE i \in hits : \A j \in hits : i <= j

findUnspentTxOut(txOutId, txOutIndex, uTxOs) == FindIndex(txOutId, txOutIndex, uTxOs)

getTxInAmount(txIn, uTxOs) ==
    LET i == findUnspentTxOut(txIn.txOutId, txIn.txOutIndex, uTxOs)
    IN IF i = 0 THEN 0 ELSE uTxOs[i].amount

\* "true", "false", or "threw" when key.verify raises.
validateTxIn(txIn, transaction, uTxOs) ==
    LET i == FindIndex(txIn.txOutId, txIn.txOutIndex, uTxOs)
    IN IF i = 0 THEN "false"
       ELSE Verify(uTxOs[i].address, transaction.id, txIn.signature)

\* Array.prototype.every over checks that return "true" or "false" or raise
\* ("threw"): the outcome of the first check that is not "true", "true" when there
\* is none.
Every(outcomes) ==
    LET bad == {i \in 1..Len(outcomes) : outcomes[i] # "true"}
    IN IF bad = {} THEN "true" ELSE outcomes[CHOOSE i \in bad : \A j \in bad : i <= j]

validateTxOutStructure(txOut) == validateAddress(txOut.address)

validateTransactionStructure(transaction) ==
    \A j \in 1..Len(transaction.txOuts) : validateTxOutStructure(transaction.txOuts[j])

TotalTxInValues(transaction, uTxOs) ==
    SumSeq([i \in 1..Len(transaction.txIns) |-> getTxInAmount(transaction.txIns[i], uTxOs)])

TotalTxOutValues(transaction) ==
    SumSeq([j \in 1..Len(transaction.txOuts) |-> transaction.txOuts[j].amount])

validateTransaction_NoSumCheck(transaction, uTxOs) ==
    IF ~validateTransactionStructure(transaction) THEN "false"
    ELSE IF getTransactionId(transaction) # transaction.id THEN "false"
    ELSE Every([i \in 1..Len(transaction.txIns) |->
                    validateTxIn(transaction.txIns[i], transaction, uTxOs)])

\* "true", "false", or "threw" when validateTxIn raises: the structure, the id,
\* every TxIn in turn, then the sums.
validateTransaction(transaction, uTxOs) ==
    IF ~validateTransactionStructure(transaction) THEN "false"
    ELSE IF getTransactionId(transaction) # transaction.id THEN "false"
    ELSE Every([i \in 1..Len(transaction.txIns) + 1 |->
                    IF i <= Len(transaction.txIns)
                    THEN validateTxIn(transaction.txIns[i], transaction, uTxOs)
                    ELSE IF TotalTxInValues(transaction, uTxOs) = TotalTxOutValues(transaction)
                    THEN "true"
                    ELSE "false"])

validateCoinbaseTx(transactions, blockIndex) ==
    /\ transactions # <<>>
    /\ LET transaction == transactions[1] IN
       /\ getTransactionId(transaction) = transaction.id
       /\ Len(transaction.txIns) = 1
       /\ transaction.txIns[1].txOutIndex = blockIndex
       /\ Len(transaction.txOuts) = 1
       /\ transaction.txOuts[1].amount = COINBASE_AMOUNT

RECURSIVE FlatTxIns(_)
FlatTxIns(transactions) ==
    IF transactions = <<>> THEN <<>>
    ELSE Head(transactions).txIns \o FlatTxIns(Tail(transactions))

\* The Set<string> of `${txOutId}${txOutIndex}` keys meets a key twice.
hasDuplicates(txIns) ==
    \E i, j \in 1..Len(txIns) :
        /\ i < j
        /\ txIns[i].txOutId \o ToStr(txIns[i].txOutIndex)
              = txIns[j].txOutId \o ToStr(txIns[j].txOutIndex)

\* transactions[0] raises a TypeError on null and on undefined; on a string it is
\* the first character, whose txIns getTransactionId reads in vain (a TypeError).
FirstThrows(transactions) ==
    \/ transactions.type \in {"null", "undefined"}
    \/ transactions.type = "string" /\ transactions.text # EmptyStr

\* validateBlockTransactions with the hasDuplicates test left out.
validateBlockTransactions_NoDuplicateCheck(transactions, uTxOs, blockIndex) ==
    IF FirstThrows(transactions) THEN "threw"
    ELSE IF ~validateCoinbaseTx(transactions.elements, blockIndex) THEN "false"
    ELSE Every([t \in 1..Len(transactions.elements) - 1 |->
                    validateTransaction(transactions.elements[t + 1], uTxOs)])

\* "true", "false", or "threw" when reading transactions[0] or when
\* validateTransaction raises: the coinbase, the duplicates, then
\* transactions.slice(1).every(validateTransaction).  Of a value that is no array
\* only transactions[0] is read: it is undefined, which validateCoinbaseTx refuses.
validateBlockTransactions(transactions, uTxOs, blockIndex) ==
    IF FirstThrows(transactions) THEN "threw"
    ELSE IF ~validateCoinbaseTx(transactions.elements, blockIndex) THEN "false"
    ELSE IF hasDuplicates(FlatTxIns(transactions.elements)) THEN "false"
    ELSE Every([t \in 1..Len(transactions.elements) - 1 |->
                    validateTransaction(transactions.elements[t + 1], uTxOs)])

NewUnspentOf(transaction) ==
    [j \in 1..Len(transaction.txOuts) |->
        UnspentTxOut(transaction.id, j - 1,
                     transaction.txOuts[j].address, transaction.txOuts[j].amount)]

RECURSIVE FlatNewUnspent(_)
FlatNewUnspent(transactions) ==
    IF transactions = <<>> THEN <<>>
    ELSE NewUnspentOf(Head(transactions)) \o FlatNewUnspent(Tail(transactions))

IsConsumed(uTxO, consumedTxOuts) ==
    \E i \in 1..Len(consumedTxOuts) :
        /\ consumedTxOuts[i].txOutId = uTxO.txOutId
        /\ consumedTxOuts[i].txOutIndex = uTxO.txOutIndex

updateUnspentTxOuts_KeepConsumed(transactions, uTxOs) ==
    uTxOs \o FlatNewUnspent(transactions)

updateUnspentTxOuts(transactions, uTxOs) ==
    LET consumedTxOuts == FlatTxIns(transactions)
        Kept(uTxO) == ~IsConsumed(uTxO, consumedTxOuts)
    IN SelectSeq(uTxOs, Kept) \o FlatNewUnspent(transactions)

\* Throws ('Invalid block transactions.', or what validateBlockTransactions
\* raised) or returns the new list.  transactions is the value handed in, an array
\* or not.
processTransactions(transactions, uTxOs, blockIndex) ==
    IF validateBlockTransactions(transactions, uTxOs, blockIndex) # "true"
    THEN [threw |-> TRUE, unspentTxOuts |-> <<>>]
    ELSE [threw |-> FALSE,
          unspentTxOuts |-> updateUnspentTxOuts(transactions.elements, uTxOs)]

getCoinbaseTransaction(address, blockIndex) ==
    LET txIns == <<TxIn(EmptyStr, blockIndex, EmptyStr)>>
        txOuts == <<TxOut(address, COINBASE_AMOUNT)>>
    IN Transaction(getTransactionId([txIns |-> txIns, txOuts |-> txOuts]), txIns, txOuts)

(***************************************************************************)
(* blockchain.ts: blocks, hashing, proof of work                           *)
(***************************************************************************)
\* A block object carries, next to the values of its members, their names in the
\* order of its keys, each with the type of its value: `fields`.  Of a member whose
\* type is not the one the Block class declares the model keeps the type and the
\* string `${value}`: `text`, empty for the other members.  These are the keys of
\* a Block in the order the constructor assigns them.
BlockFields(transactions) ==
    <<[name |-> "index", type |-> "number", text |-> EmptyStr],
      [name |-> "timestamp", type |-> "number", text |-> EmptyStr],
      [name |-> "transactions", type |-> transactions.type,
       text |-> IF transactions.type = "array" THEN EmptyStr ELSE transactions.text],
      [name |-> "hash", type |-> "string", text |-> EmptyStr],
      [name |-> "previousHash", type |-> "string", text |-> EmptyStr],
      [name |-> "difficulty", type |-> "number", text |-> EmptyStr],
      [name |-> "proof", type |-> "number", text |-> EmptyStr]>>

\* new Block({ ... }); transactions is the value handed in, an array or not.
Block(index, timestamp, transactions, hash, previousHash, difficulty, proof) ==
    [index |-> index, timestamp |-> timestamp, transactions |-> transactions.elements,
     hash |-> hash, previousHash |-> previousHash, difficulty |-> difficulty,
     proof |-> proof, fields |-> BlockFields(transactions)]

\* typeof block[name]: 'undefined' for a key that the object does not have.
TypeOf(block, name) ==
    LET at == {i \in 1..Len(block.fields) : block.fields[i].name = name}
    IN IF at = {} THEN "undefined"
       ELSE TypeOfValue(block.fields[CHOOSE i \in at : TRUE].type)

\* block.transactions, the value: an array or not.
TransactionsOf(block) ==
    LET at == {i \in 1..Len(block.fields) : block.fields[i].name = "transactions"}
        field == block.fields[CHOOSE i \in at : TRUE]
    IN IF at = {} THEN JsUndefined
       ELSE IF field.type = "array" THEN JsArray(block.transactions)
       ELSE [type |-> field.type, elements |-> <<>>, text |-> field.text]

\* JSON.stringify(block): the members in the order of the keys, those of type
\* undefined left out.  The members of the nested objects stand in the order in
\* which the code writes them.
JSONStringify(block) ==
    LET Defined(field) == field.type # "undefined"
        members == SelectSeq(block.fields, Defined)
    IN [i \in 1..Len(members) |->
           <<members[i].name, members[i].type, members[i].text, block[members[i].name]>>]

\* sha256(`${index}${previousHash}${timestamp}${transactions}${difficulty}${proof}`).
\* An array of objects interpolates as '[object Object],[object Object],...', so of
\* the transactions only their number reaches the digest.
generateHash(index, previousHash, timestamp, transactions, difficulty, proof) ==
    sha256(ToStr(index) \o previousHash \o ToStr(timestamp) \o transactions.text
           \o ToStr(difficulty) \o ToStr(proof))

generateHashForBlock(block) ==
    generateHash(block.index, block.previousHash, block.timestamp,
                 TransactionsOf(block), block.difficulty, block.proof)

\* The number of leading '0' characters of hexToBinary(hash).  The digest is
\* SHA-256; the model spreads the digests over 0..MaxZeroBits leading zero bits by
\* the length of the hashed string and its last character.
LeadingZeroBits(hash) ==
    LET DigitValue(c) ==
            CASE c = "0" -> 0 [] c = "1" -> 1 [] c = "2" -> 2 [] c = "3" -> 3 [] c = "4" -> 4
              [] c = "5" -> 5 [] c = "6" -> 6 [] c = "7" -> 7 [] c = "8" -> 8 [] c = "9" -> 9
              [] OTHER -> 0
    IN IF Len(hash) < 2 THEN 0
       ELSE (Len(hash) + DigitValue(hash[Len(hash) - 1])) % (MaxZeroBits + 1)

\* '0'.repeat(difficulty) raises RangeError for a negative count.
checkHashDifficultyThrows(difficulty) == difficulty < 0

checkHashDifficulty(hash, difficulty) == LeadingZeroBits(hash) >= difficulty

genesisTransaction ==
    LET txIns == <<TxIn(EmptyStr, 0, EmptyStr)>>
        txOuts == <<TxOut(GenesisAddress, COINBASE_AMOUNT)>>
    IN Transaction(getTransactionId([txIns |-> txIns, txOuts |-> txOuts]), txIns, txOuts)

genesisBlock ==
    Block(0, GenesisTimestamp, JsArray(<<genesisTransaction>>),
          generateHash(0, EmptyStr, GenesisTimestamp, JsArray(<<genesisTransaction>>), 0, 0),
          EmptyStr, 0, 0)

getLastBlock(chain) == chain[Len(chain)]

\* Time in ms; the code compares timeTaken = ts/1000 - ts/1000 with
\* timeExpected / 2 and timeExpected * 2 (seconds).
adjustDifficulty(chain, lastBlock) ==
    LET lastAdjustmentBlock == chain[Len(chain) - DIFFICULTY_ADJUSTMENT_INTERVAL + 1]
        timeExpected == BLOCK_GENERATION_INTERVAL * DIFFICULTY_ADJUSTMENT_INTERVAL
        timeTakenMs == lastBlock.timestamp - lastAdjustmentBlock.timestamp
    IN IF 2 * timeTakenMs < timeExpected * 1000 THEN lastAdjustmentBlock.difficulty + 1
       ELSE IF timeTakenMs > timeExpected * 2 * 1000 THEN lastAdjustmentBlock.difficulty - 1
       ELSE lastAdjustmentBlock.difficulty

getDifficulty(chain) ==
    LET lastBlock == chain[Len(chain)]
    IN IF lastBlock.index % DIFFICULTY_ADJUSTMENT_INTERVAL = 0 /\ lastBlock.index # 0
       THEN adjustDifficulty(chain, lastBlock)
       ELSE lastBlock.difficulty

\* The proofs tried by findBlock: 0, 1, 2, ... ; every residue of LeadingZeroBits
\* is met within MaxZeroBits + 1 tries.
ProofRange == 0..MaxZeroBits

\* Throws (RangeError) for a negative difficulty; otherwise the block with the
\* least proof whose hash meets the difficulty.  transactions is the value handed
\* in, an array or not.
findBlock(index, previousHash, timestamp, transactions, difficulty) ==
    IF checkHashDifficultyThrows(difficulty)
    THEN [threw |-> TRUE, block |-> genesisBlock]
    ELSE LET Meets(p) == checkHashDifficulty(
                 generateHash(index, previousHash, timestamp, transactions, difficulty, p),
                 difficulty)
             proof == CHOOSE p \in ProofRange :
                          Meets(p) /\ \A q \in ProofRange : q < p => ~Meets(q)
         IN [threw |-> FALSE,
             block |-> Block(index, timestamp, transactions,
                             generateHash(index, previousHash, timestamp, transactions,
                                          difficulty, proof),
                             previousHash, difficulty, proof)]

validateTimestamp(newBlock, previousBlock, dateNow) ==
    /\ previousBlock.timestamp - TimestampTolerance < newBlock.timestamp
    /\ newBlock.timestamp - TimestampTolerance < dateNow

\* typeof of the five members.
validateBlockStructure(block) ==
    /\ TypeOf(block, "index") = "number"
    /\ TypeOf(block, "hash") = "string"
    /\ TypeOf(block, "previousHash") = "string"
    /\ TypeOf(block, "timestamp") = "number"
    /\ TypeOf(block, "transactions") = "object"

validateNewBlock(newBlock, previousBlock, dateNow) ==
    /\ validateBlockStructure(newBlock)
    /\ newBlock.index = previousBlock.index + 1
    /\ newBlock.previousHash = previousBlock.hash
    /\ validateTimestamp(newBlock, previousBlock, dateNow)
    /\ generateHashForBlock(newBlock) = newBlock.hash

\* Difficulties may be negative; Math.pow(2, d) is then a fraction.  The sums are
\* kept as integers in units of 2^-FracBits, which leaves every comparison as it is.
\* A chain of at most MaxChain blocks holds no difficulty below -MaxChain.
FracBits == MaxChain

Pow2(n) == 2 ^ n

getAccumulatedDifficulty(chain) ==
    SumSeq([i \in 1..Len(chain) |-> Pow2(chain[i].difficulty + FracBits)])

\* addBlock: ret is "true", "false" or "threw"; chain and unspentTxOuts are the
\* module's lists after the call.
addBlock_PushFirst(newBlock, chain, uTxOs, dateNow) ==
    IF ~validateNewBlock(newBlock, getLastBlock(chain), dateNow)
    THEN [ret |-> "false", chain |-> chain, unspentTxOuts |-> uTxOs]
    ELSE LET referencedUTxO == processTransactions(TransactionsOf(newBlock), uTxOs, newBlock.index)
         IN IF referencedUTxO.threw
            THEN [ret |-> "threw", chain |-> Append(chain, newBlock), unspentTxOuts |-> uTxOs]
            ELSE [ret |-> "true", chain |-> Append(chain, newBlock),
                  unspentTxOuts |-> referencedUTxO.unspentTxOuts]

addBlock(newBlock, chain, uTxOs, dateNow) ==
    IF ~validateNewBlock(newBlock, getLastBlock(chain), dateNow)
    THEN [ret |-> "false", chain |-> chain, unspentTxOuts |-> uTxOs]
    ELSE LET referencedUTxO == processTransactions(TransactionsOf(newBlock), uTxOs, newBlock.index)
         IN IF referencedUTxO.threw
            THEN [ret |-> "threw", chain |-> chain, unspentTxOuts |-> uTxOs]
            ELSE [ret |-> "true", chain |-> Append(chain, newBlock),
                  unspentTxOuts |-> referencedUTxO.unspentTxOuts]

\* validateChain: the loop over the received chain `block`, from position i with the
\* unspent outputs derived so far.  ret is "ok" (with the derived list), "null" or
\* "threw" (processTransactions raised).
RECURSIVE ValidateChainFrom(_, _, _, _)
ValidateChainFrom(block, i, uTxOs, dateNow) ==
    IF i > Len(block) THEN [ret |-> "ok", unspentTxOuts |-> uTxOs]
    ELSE IF i > 1 /\ ~validateNewBlock(block[i], block[i - 1], dateNow)
    THEN [ret |-> "null", unspentTxOuts |-> <<>>]
    ELSE LET r == processTransactions(TransactionsOf(block[i]), uTxOs, block[i].index)
         IN IF r.threw THEN [ret |-> "threw", unspentTxOuts |-> <<>>]
            ELSE ValidateChainFrom(block, i + 1, r.unspentTxOuts, dateNow)

\* JSON.stringify(block) === JSON.stringify(blockchain[0])
isValidGenesis(block, chain) == JSONStringify(block) = JSONStringify(chain[1])

validateChain_NoGenesisCheck(block, chain, dateNow) ==
    ValidateChainFrom(block, 1, <<>>, dateNow)

validateChain(block, chain, dateNow) ==
    IF ~isValidGenesis(block[1], chain)
    THEN [ret |-> "null", unspentTxOuts |-> <<>>]
    ELSE ValidateChainFrom(block, 1, <<>>, dateNow)

(***************************************************************************)
(* transactionPool.ts                                                      *)
(***************************************************************************)
getTxPoolIns(aTransactionPool) == FlatTxIns(aTransactionPool)

isValidTxForPool(tx, aTransactionPool) ==
    LET txPoolIns == getTxPoolIns(aTransactionPool)
    IN \A i \in 1..Len(tx.txIns) :
         ~\E k \in 1..Len(txPoolIns) :
              /\ tx.txIns[i].txOutIndex = txPoolIns[k].txOutIndex
              /\ tx.txIns[i].txOutId = txPoolIns[k].txOutId

\* addToTransactionPool with the isValidTxForPool test left out.
addToTransactionPool_NoPoolCheck(transaction, uTxOs, pool) ==
    IF validateTransaction(transaction, uTxOs) # "true" THEN [threw |-> TRUE, pool |-> pool]
    ELSE [threw |-> FALSE, pool |-> Append(pool, transaction)]

\* Throws 'Trying to add invalid tx to pool' or pushes the transaction.
addToTransactionPool(transaction, uTxOs, pool) ==
    IF validateTransaction(transaction, uTxOs) # "true" THEN [threw |-> TRUE, pool |-> pool]
    ELSE IF ~isValidTxForPool(transaction, pool) THEN [threw |-> TRUE, pool |-> pool]
    ELSE [threw |-> FALSE, pool |-> Append(pool, transaction)]

hasTxIn(txIn, uTxOs) == FindIndex(txIn.txOutId, txIn.txOutIndex, uTxOs) # 0

updateTransactionPool(uTxOs, pool) ==
    LET Invalid(tx) == \E i \in 1..Len(tx.txIns) : ~hasTxIn(tx.txIns[i], uTxOs)
        Valid(tx) == ~Invalid(tx)
    IN SelectSeq(pool, Valid)

(***************************************************************************)
(* wallet.ts                                                               *)
(***************************************************************************)
\* The file at privateKeyLocation: missing, or holding a private key.
NoKeyFile == [exists |-> FALSE, privateKey |-> EmptyStr]

KeyFile(privateKey) == [exists |-> TRUE, privateKey |-> privateKey]

\* readFileSync(privateKeyLocation): raises ENOENT when the file is missing.
getPrivateFromWallet(keyFile) ==
    [threw |-> ~keyFile.exists, privateKey |-> keyFile.privateKey]

\* The address of the key in the file.
getPublicFromWallet(keyFile) ==
    [threw |-> ~keyFile.exists, address |-> getPublicKey(keyFile.privateKey)]

\* The keys generatePrivateKey() may draw.
PrivateKeys == {MyAddress, OtherAddress}

\* initWallet(): writes a new key, over the file when there is one.
initWallet(keyFile, privateKey) == KeyFile(privateKey)

\* deleteWallet(): removes the file when there is one.
deleteWallet(keyFile) == NoKeyFile

findUnspentTxOuts(address, uTxOs) ==
    LET Mine(uTxO) == uTxO.address = address IN SelectSeq(uTxOs, Mine)

getBalance(address, uTxOs) ==
    LET mine == findUnspentTxOuts(address, uTxOs)
    IN SumSeq([i \in 1..Len(mine) |-> mine[i].amount])

filterTxPoolTxs(uTxOs, pool) ==
    LET txIns == FlatTxIns(pool)
        NotRemovable(uTxO) == ~IsConsumed(uTxO, txIns)
    IN SelectSeq(uTxOs, NotRemovable)

\* The length of the shortest prefix of myUnspentTxOuts whose amounts reach
\* `amount`; 0 when the loop ends without reaching it (the function throws).
\* An empty list throws whatever the amount.
PrefixAmount(myUnspentTxOuts, n) ==
    SumSeq([i \in 1..n |-> myUnspentTxOuts[i].amount])

findTxOutsForAmount(amount, myUnspentTxOuts) ==
    LET reach == {n \in 1..Len(myUnspentTxOuts) : PrefixAmount(myUnspentTxOuts, n) >= amount}
    IN IF reach = {} THEN [threw |-> TRUE, includedUnspentTxOuts |-> <<>>, leftOverAmount |-> 0]
       ELSE LET n == CHOOSE k \in reach : \A m \in reach : k <= m
            IN [threw |-> FALSE,
                includedUnspentTxOuts |-> SubSeq(myUnspentTxOuts, 1, n),
                leftOverAmount |-> PrefixAmount(myUnspentTxOuts, n) - amount]

createTxOuts(receiverAddress, myAddress, amount, leftOverAmount) ==
    IF leftOverAmount = 0 THEN <<TxOut(receiverAddress, amount)>>
    ELSE <<TxOut(receiverAddress, amount), TxOut(myAddress, leftOverAmount)>>

\* signTxIn throws when the referenced output is missing or belongs to another key.
signTxInThrows(txIn, privateKey, uTxOs) ==
    LET i == FindIndex(txIn.txOutId, txIn.txOutIndex, uTxOs)
    IN i = 0 \/ getPublicKey(privateKey) # uTxOs[i].address

\* createTransaction with the call of filterTxPoolTxs left out.
createTransaction_NoPoolFilter(receiverAddress, amount, privateKey, pool, uTxOs) ==
    LET myAddress == getPublicKey(privateKey)
        myUnspentTxOuts == findUnspentTxOuts(myAddress, uTxOs)
        found == findTxOutsForAmount(amount, myUnspentTxOuts)
        included == found.includedUnspentTxOuts
        unsignedTxIns == [i \in 1..Len(included) |->
                             TxIn(included[i].txOutId, included[i].txOutIndex, EmptyStr)]
        txOuts == createTxOuts(receiverAddress, myAddress, amount, found.leftOverAmount)
        id == getTransactionId([txIns |-> unsignedTxIns, txOuts |-> txOuts])
        signedTxIns == [i \in 1..Len(included) |->
                           TxIn(included[i].txOutId, included[i].txOutIndex,
                                Sign(privateKey, id))]
    IN IF found.threw THEN [threw |-> TRUE, transaction |-> genesisTransaction]
       ELSE IF \E i \in 1..Len(unsignedTxIns) : signTxInThrows(unsignedTxIns[i], privateKey, uTxOs)
       THEN [threw |-> TRUE, transaction |-> genesisTransaction]
       ELSE [threw |-> FALSE, transaction |-> Transaction(id, signedTxIns, txOuts)]

createTransaction(receiverAddress, amount, privateKey, pool, uTxOs) ==
    LET myAddress == getPublicKey(privateKey)
        myUnspentTxOuts == findUnspentTxOuts(myAddress, uTxOs)
        myUnspentTxOutsInPool == filterTxPoolTxs(myUnspentTxOuts, pool)
        found == findTxOutsForAmount(amount, myUnspentTxOutsInPool)
        included == found.includedUnspentTxOuts
        unsignedTxIns == [i \in 1..Len(included) |->
                             TxIn(included[i].txOutId, included[i].txOutIndex, EmptyStr)]
        txOuts == createTxOuts(receiverAddress, myAddress, amount, found.leftOverAmount)
        id == getTransactionId([txIns |-> unsignedTxIns, txOuts |-> txOuts])
        signedTxIns == [i \in 1..Len(included) |->
                           TxIn(included[i].txOutId, included[i].txOutIndex,
                                Sign(privateKey, id))]
    IN IF found.threw THEN [threw |-> TRUE, transaction |-> genesisTransaction]
       ELSE IF \E i \in 1..Len(unsignedTxIns) : signTxInThrows(unsignedTxIns[i], privateKey, uTxOs)
       THEN [threw |-> TRUE, transaction |-> genesisTransaction]
       ELSE [threw |-> FALSE, transaction |-> Transaction(id, signedTxIns, txOuts)]

(***************************************************************************)
(* p2p.ts: messages and sends                                              *)
(***************************************************************************)
Message(type, data) == [type |-> type, data |-> data]

queryChainLengthMsg == Message(QUERY_LATEST, <<>>)
queryAllMsg == Message(QUERY_ALL, <<>>)
queryTransactionPoolMsg == Message(QUERY_TRANSACTION_POOL, <<>>)
responseChainMsg(chain) == Message(RESPONSE_BLOCKCHAIN, chain)
responseLatestMsg(chain) == Message(RESPONSE_BLOCKCHAIN, <<getLastBlock(chain)>>)
responseTransactionPoolMsg(pool) == Message(RESPONSE_TRANSACTION_POOL, pool)

\* One frame written to one socket.
sendMessage(socket, message) == <<[to |-> socket, type |-> message.type, data |-> message.data]>>

\* sockets.forEach((socket) => sendMessage(socket, message)), in insertion order.
broadcastMessage(message, socks) ==
    [i \in 1..Len(socks) |-> [to |-> socks[i], type |-> message.type, data |-> message.data]]

broadcastTransactionPool(pool, socks) == broadcastMessage(responseTransactionPoolMsg(pool), socks)

(***************************************************************************)
(* blockchain.ts: replaceChain and the commands                            *)
(***************************************************************************)
\* ret is "true", "false" or "threw"; chain, unspentTxOuts, pool are the module
\* state after the call and sent the frames it wrote.
replaceChain_NoSetUnspent(newChain, chain, uTxOs, pool, socks, dateNow) ==
    LET v == validateChain(newChain, chain, dateNow)
        same == [chain |-> chain, unspentTxOuts |-> uTxOs, pool |-> pool, sent |-> <<>>]
    IN IF v.ret = "threw" THEN [ret |-> "threw"] @@ same
       ELSE IF v.ret = "null" THEN [ret |-> "false"] @@ same
       ELSE IF getAccumulatedDifficulty(newChain) < getAccumulatedDifficulty(chain)
       THEN [ret |-> "false"] @@ same
       ELSE IF Len(newChain) <= Len(chain) THEN [ret |-> "false"] @@ same
       ELSE [ret |-> "true", chain |-> newChain, unspentTxOuts |-> uTxOs,
             pool |-> updateTransactionPool(v.unspentTxOuts, pool),
             sent |-> broadcastMessage(responseLatestMsg(newChain), socks)]

\* replaceChain with the length test left out.
replaceChain_NoLengthCheck(newChain, chain, uTxOs, pool, socks, dateNow) ==
    LET v == validateChain(newChain, chain, dateNow)
        same == [chain |-> chain, unspentTxOuts |-> uTxOs, pool |-> pool, sent |-> <<>>]
    IN IF v.ret = "threw" THEN [ret |-> "threw"] @@ same
       ELSE IF v.ret = "null" THEN [ret |-> "false"] @@ same
       ELSE IF getAccumulatedDifficulty(newChain) < getAccumulatedDifficulty(chain)
       THEN [ret |-> "false"] @@ same
       ELSE [ret |-> "true", chain |-> newChain, unspentTxOuts |-> v.unspentTxOuts,
             pool |-> updateTransactionPool(v.unspentTxOuts, pool),
             sent |-> broadcastMessage(responseLatestMsg(newChain), socks)]

\* replaceChain with the call of updateTransactionPool left out.
replaceChain_NoPoolUpdate(newChain, chain, uTxOs, pool, socks, dateNow) ==
    LET v == validateChain(newChain, chain, dateNow)
        same == [chain |-> chain, unspentTxOuts |-> uTxOs, pool |-> pool, sent |-> <<>>]
    IN IF v.ret = "threw" THEN [ret |-> "threw"] @@ same
       ELSE IF v.ret = "null" THEN [ret |-> "false"] @@ same
       ELSE IF getAccumulatedDifficulty(newChain) < getAccumulatedDifficulty(chain)
       THEN [ret |-> "false"] @@ same
       ELSE IF Len(newChain) <= Len(chain) THEN [ret |-> "false"] @@ same
       ELSE [ret |-> "true", chain |-> newChain, unspentTxOuts |-> v.unspentTxOuts,
             pool |-> pool,
             sent |-> broadcastMessage(responseLatestMsg(newChain), socks)]

replaceChain_AssignFirst(newChain, chain, uTxOs, pool, socks, dateNow) ==
    LET v == validateChain(newChain, chain, dateNow)
        same == [chain |-> newChain, unspentTxOuts |-> uTxOs, pool |-> pool, sent |-> <<>>]
    IN IF v.ret = "threw" THEN [ret |-> "threw"] @@ same
       ELSE IF v.ret = "null" THEN [ret |-> "false"] @@ same
       ELSE IF getAccumulatedDifficulty(newChain) < getAccumulatedDifficulty(chain)
       THEN [ret |-> "false"] @@ same
       ELSE IF Len(newChain) <= Len(chain) THEN [ret |-> "false"] @@ same
       ELSE [ret |-> "true", chain |-> newChain, unspentTxOuts |-> v.unspentTxOuts,
             pool |-> updateTransactionPool(v.unspentTxOuts, pool),
             sent |-> broadcastMessage(responseLatestMsg(newChain), socks)]

replaceChain(newChain, chain, uTxOs, pool, socks, dateNow) ==
    LET v == validateChain(newChain, chain, dateNow)
        same == [chain |-> chain, unspentTxOuts |-> uTxOs, pool |-> pool, sent |-> <<>>]
    IN IF v.ret = "threw" THEN [ret |-> "threw"] @@ same
       ELSE IF v.ret = "null" THEN [ret |-> "false"] @@ same
       ELSE IF getAccumulatedDifficulty(newChain) < getAccumulatedDifficulty(chain)
       THEN [ret |-> "false"] @@ same
       ELSE IF Len(newChain) <= Len(chain) THEN [ret |-> "false"] @@ same
       ELSE [ret |-> "true", chain |-> newChain, unspentTxOuts |-> v.unspentTxOuts,
             pool |-> updateTransactionPool(v.unspentTxOuts, pool),
             sent |-> broadcastMessage(responseLatestMsg(newChain), socks)]

\* generateRawBlock: ret is "true" / "false" (what addBlock returned; the last block
\* of the chain is broadcast and the new block returned either way) or "threw"
\* (findBlock or addBlock raised).  transactions is the value handed in, an array
\* or not.
generateRawBlock(transactions, chain, uTxOs, socks, dateNow) ==
    LET lastBlock == getLastBlock(chain)
        difficulty == getDifficulty(chain)
        found == findBlock(lastBlock.index + 1, lastBlock.hash, dateNow, transactions, difficulty)
        added == addBlock(found.block, chain, uTxOs, dateNow)
    IN IF found.threw
       THEN [ret |-> "threw", chain |-> chain, unspentTxOuts |-> uTxOs, sent |-> <<>>]
       ELSE IF added.ret = "threw"
       THEN [ret |-> "threw", chain |-> added.chain, unspentTxOuts |-> added.unspentTxOuts,
             sent |-> <<>>]
       ELSE [ret |-> added.ret, chain |-> added.chain, unspentTxOuts |-> added.unspentTxOuts,
             sent |-> broadcastMessage(responseLatestMsg(added.chain), socks)]

generateBlock_CoinbaseForLastIndex(keyFile, chain, uTxOs, pool, socks, dateNow) ==
    LET public == getPublicFromWallet(keyFile)
        transaction == getCoinbaseTransaction(public.address, getLastBlock(chain).index)
    IN IF public.threw
       THEN [ret |-> "threw", chain |-> chain, unspentTxOuts |-> uTxOs, sent |-> <<>>]
       ELSE generateRawBlock(JsArray(<<transaction>> \o pool), chain, uTxOs, socks, dateNow)

\* generateBlock: the coinbase pays getPublicFromWallet(), which raises when the key
\* file is missing.
generateBlock(keyFile, chain, uTxOs, pool, socks, dateNow) ==
    LET public == getPublicFromWallet(keyFile)
        transaction == getCoinbaseTransaction(public.address, getLastBlock(chain).index + 1)
    IN IF public.threw
       THEN [ret |-> "threw", chain |-> chain, unspentTxOuts |-> uTxOs, sent |-> <<>>]
       ELSE generateRawBlock(JsArray(<<transaction>> \o pool), chain, uTxOs, socks, dateNow)

\* generateBlockWithTransaction: getPublicFromWallet() for the coinbase, then
\* getPrivateFromWallet() for createTransaction; each raises when the key file is
\* missing.
generateBlockWithTransaction(address, amount, keyFile, chain, uTxOs, pool, socks, dateNow) ==
    LET public == getPublicFromWallet(keyFile)
        private == getPrivateFromWallet(keyFile)
        coinbaseTx == getCoinbaseTransaction(public.address, getLastBlock(chain).index + 1)
        created == createTransaction(address, amount, private.privateKey, pool, uTxOs)
    IN IF public.threw \/ private.threw \/ created.threw
       THEN [ret |-> "threw", chain |-> chain, unspentTxOuts |-> uTxOs, sent |-> <<>>]
       ELSE generateRawBlock(JsArray(<<coinbaseTx, created.transaction>>), chain, uTxOs,
                             socks, dateNow)

\* sendTransaction: getPrivateFromWallet() raises when the key file is missing.
sendTransaction(address, amount, keyFile, uTxOs, pool, socks) ==
    LET private == getPrivateFromWallet(keyFile)
        created == createTransaction(address, amount, private.privateKey, pool, uTxOs)
        added == addToTransactionPool(created.transaction, uTxOs, pool)
    IN IF private.threw \/ created.threw THEN [ret |-> "threw", pool |-> pool, sent |-> <<>>]
       ELSE IF added.threw THEN [ret |-> "threw", pool |-> added.pool, sent |-> <<>>]
       ELSE [ret |-> "ok", pool |-> added.pool,
             sent |-> broadcastTransactionPool(added.pool, socks)]

handleReceivedTransaction(transaction, uTxOs, pool) ==
    addToTransactionPool(transaction, uTxOs, pool)

(***************************************************************************)
(* p2p.ts: inbound frames                                                  *)
(***************************************************************************)
\* The loop of the RESPONSE_TRANSACTION_POOL case: the first transaction that
\* addToTransactionPool refuses raises, which ends the loop.
RECURSIVE AdmitReceived(_, _, _)
AdmitReceived(receivedTransactions, uTxOs, pool) ==
    IF receivedTransactions = <<>> THEN [threw |-> FALSE, pool |-> pool]
    ELSE LET r == handleReceivedTransaction(Head(receivedTransactions), uTxOs, pool)
         IN IF r.threw THEN [threw |-> TRUE, pool |-> r.pool]
            ELSE AdmitReceived(Tail(receivedTransactions), uTxOs, r.pool)

\* case RESPONSE_TRANSACTION_POOL: the broadcast follows the loop inside the try.
handleTransactionPoolResponse(receivedTransactions, uTxOs, pool, socks) ==
    LET r == AdmitReceived(receivedTransactions, uTxOs, pool)
    IN IF r.threw THEN [ret |-> "threw", pool |-> r.pool, sent |-> <<>>]
       ELSE [ret |-> "ok", pool |-> r.pool, sent |-> broadcastTransactionPool(r.pool, socks)]

\* handleBlockchainResponse on a parsed array.  branch names the path taken:
\* "empty" (the last element is undefined and validateBlockStructure raises),
\* "structure" (the last element fails validateBlockStructure), "none", "addBlock",
\* "queryAll" or "replaceChain".
handleBlockchainResponse_BroadcastAlways(receivedBlocks, chain, uTxOs, pool, socks, dateNow) ==
    LET same == [chain |-> chain, unspentTxOuts |-> uTxOs, pool |-> pool, sent |-> <<>>]
    IN IF receivedBlocks = <<>> THEN [branch |-> "empty", ret |-> "threw"] @@ same
       ELSE
       LET latestBlockReceived == receivedBlocks[Len(receivedBlocks)]
           latestBlockHeld == getLastBlock(chain)
       IN IF ~validateBlockStructure(latestBlockReceived)
          THEN [branch |-> "structure", ret |-> "ok"] @@ same
          ELSE IF latestBlockReceived.index > latestBlockHeld.index
          THEN IF latestBlockHeld.hash = latestBlockReceived.previousHash
               THEN LET a == addBlock(latestBlockReceived, chain, uTxOs, dateNow)
                    IN [branch |-> "addBlock", ret |-> a.ret, chain |-> a.chain,
                        unspentTxOuts |-> a.unspentTxOuts, pool |-> pool,
                        sent |-> broadcastMessage(responseLatestMsg(a.chain), socks)]
               ELSE IF Len(receivedBlocks) = 1
               THEN [branch |-> "queryAll", ret |-> "ok"] @@
                    [same EXCEPT !.sent = broadcastMessage(queryAllMsg, socks)]
               ELSE LET r == replaceChain(receivedBlocks, chain, uTxOs, pool, socks, dateNow)
                    IN [branch |-> "replaceChain", ret |-> r.ret, chain |-> r.chain,
                        unspentTxOuts |-> r.unspentTxOuts, pool |-> r.pool, sent |-> r.sent]
          ELSE [branch |-> "none", ret |-> "ok"] @@ same

handleBlockchainResponse_AlwaysReplace(receivedBlocks, chain, uTxOs, pool, socks, dateNow) ==
    LET same == [chain |-> chain, unspentTxOuts |-> uTxOs, pool |-> pool, sent |-> <<>>]
    IN IF receivedBlocks = <<>> THEN [branch |-> "empty", ret |-> "threw"] @@ same
       ELSE
       LET latestBlockReceived == receivedBlocks[Len(receivedBlocks)]
           latestBlockHeld == getLastBlock(chain)
       IN IF ~validateBlockStructure(latestBlockReceived)
          THEN [branch |-> "structure", ret |-> "ok"] @@ same
          ELSE IF latestBlockReceived.index > latestBlockHeld.index
          THEN IF latestBlockHeld.hash = latestBlockReceived.previousHash
               THEN LET a == addBlock(latestBlockReceived, chain, uTxOs, dateNow)
                    IN [branch |-> "addBlock", ret |-> a.ret, chain |-> a.chain,
                        unspentTxOuts |-> a.unspentTxOuts, pool |-> pool,
                        sent |-> IF a.ret = "true"
                                 THEN broadcastMessage(responseLatestMsg(a.chain), socks)
                                 ELSE <<>>]
               ELSE LET r == replaceChain(receivedBlocks, chain, uTxOs, pool, socks, dateNow)
                    IN [branch |-> "replaceChain", ret |-> r.ret, chain |-> r.chain,
                        unspentTxOuts |-> r.unspentTxOuts, pool |-> r.pool, sent |-> r.sent]
          ELSE [branch |-> "none", ret |-> "ok"] @@ same

handleBlockchainResponse_NoIndexCompare(receivedBlocks, chain, uTxOs, pool, socks, dateNow) ==
    LET same == [chain |-> chain, unspentTxOuts |-> uTxOs, pool |-> pool, sent |-> <<>>]
    IN IF receivedBlocks = <<>> THEN [branch |-> "empty", ret |-> "threw"] @@ same
       ELSE
       LET latestBlockReceived == receivedBlocks[Len(receivedBlocks)]
           latestBlockHeld == getLastBlock(chain)
       IN IF ~validateBlockStructure(latestBlockReceived)
          THEN [branch |-> "structure", ret |-> "ok"] @@ same
          ELSE IF TRUE
          THEN IF latestBlockHeld.hash = latestBlockReceived.previousHash
               THEN LET a == addBlock(latestBlockReceived, chain, uTxOs, dateNow)
                    IN [branch |-> "addBlock", ret |-> a.ret, chain |-> a.chain,
                        unspentTxOuts |-> a.unspentTxOuts, pool |-> pool,
                        sent |-> IF a.ret = "true"
                                 THEN broadcastMessage(responseLatestMsg(a.chain), socks)
                                 ELSE <<>>]
               ELSE IF Len(receivedBlocks) = 1
               THEN [branch |-> "queryAll", ret |-> "ok"] @@
                    [same EXCEPT !.sent = broadcastMessage(queryAllMsg, socks)]
               ELSE LET r == replaceChain(receivedBlocks, chain, uTxOs, pool, socks, dateNow)
                    IN [branch |-> "replaceChain", ret |-> r.ret, chain |-> r.chain,
                        unspentTxOuts |-> r.unspentTxOuts, pool |-> r.pool, sent |-> r.sent]
          ELSE [branch |-> "none", ret |-> "ok"] @@ same

handleBlockchainResponse(receivedBlocks, chain, uTxOs, pool, socks, dateNow) ==
    LET same == [chain |-> chain, unspentTxOuts |-> uTxOs, pool |-> pool, sent |-> <<>>]
    IN IF receivedBlocks = <<>> THEN [branch |-> "empty", ret |-> "threw"] @@ same
       ELSE
       LET latestBlockReceived == receivedBlocks[Len(receivedBlocks)]
           latestBlockHeld == getLastBlock(chain)
       IN IF ~validateBlockStructure(latestBlockReceived)
          THEN [branch |-> "structure", ret |-> "ok"] @@ same
          ELSE IF latestBlockReceived.index > latestBlockHeld.index
          THEN IF latestBlockHeld.hash = latestBlockReceived.previousHash
               THEN LET a == addBlock(latestBlockReceived, chain, uTxOs, dateNow)
                    IN [branch |-> "addBlock", ret |-> a.ret, chain |-> a.chain,
                        unspentTxOuts |-> a.unspentTxOuts, pool |-> pool,
                        sent |-> IF a.ret = "true"
                                 THEN broadcastMessage(responseLatestMsg(a.chain), socks)
                                 ELSE <<>>]
               ELSE IF Len(receivedBlocks) = 1
               THEN [branch |-> "queryAll", ret |-> "ok"] @@
                    [same EXCEPT !.sent = broadcastMessage(queryAllMsg, socks)]
               ELSE LET r == replaceChain(receivedBlocks, chain, uTxOs, pool, socks, dateNow)
                    IN [branch |-> "replaceChain", ret |-> r.ret, chain |-> r.chain,
                        unspentTxOuts |-> r.unspentTxOuts, pool |-> r.pool, sent |-> r.sent]
          ELSE [branch |-> "none", ret |-> "ok"] @@ same

(***************************************************************************)
(* The environment: what peers and HTTP clients can supply                 *)
(***************************************************************************)
Peers == {"p1", "p2"}

\* A digest and a transaction id that no honest computation yields here.
TamperedHash == sha256(<<"x">>)
TamperedId == sha256(<<"y">>)

\* The private key that signs for an output at `address`: the key of the point the
\* address encodes.  For an address that encodes no point there is no such key, and
\* the peer signs with its own.
KeyFor(address) ==
    IF decodePoint(address).threw THEN PeerAddress ELSE decodePoint(address).point

\* Transactions a peer builds on the unspent output u.
SpendTx(u, address, amount) ==
    LET txOuts == <<TxOut(address, amount)>>
        id == getTransactionId([txIns |-> <<TxIn(u.txOutId, u.txOutIndex, EmptyStr)>>,
                                txOuts |-> txOuts])
    IN Transaction(id, <<TxIn(u.txOutId, u.txOutIndex, Sign(KeyFor(u.address), id))>>, txOuts)

UnsignedTx(u) ==
    LET t == SpendTx(u, PeerAddress, u.amount)
    IN [t EXCEPT !.txIns = <<TxIn(u.txOutId, u.txOutIndex, EmptyStr)>>]

TamperedIdTx(u) == [SpendTx(u, PeerAddress, u.amount) EXCEPT !.id = TamperedId]

\* One transaction that spends the two outputs u and v.
TwoInputTx(u, v) ==
    LET txOuts == <<TxOut(PeerAddress, u.amount + v.amount)>>
        unsigned == <<TxIn(u.txOutId, u.txOutIndex, EmptyStr),
                      TxIn(v.txOutId, v.txOutIndex, EmptyStr)>>
        id == getTransactionId([txIns |-> unsigned, txOuts |-> txOuts])
    IN Transaction(id, <<TxIn(u.txOutId, u.txOutIndex, Sign(KeyFor(u.address), id)),
                         TxIn(v.txOutId, v.txOutIndex, Sign(KeyFor(v.address), id))>>, txOuts)

DoubleInputTx(u) ==
    LET txOuts == <<TxOut(PeerAddress, 2 * u.amount)>>
        unsigned == <<TxIn(u.txOutId, u.txOutIndex, EmptyStr),
                      TxIn(u.txOutId, u.txOutIndex, EmptyStr)>>
        id == getTransactionId([txIns |-> unsigned, txOuts |-> txOuts])
        in == TxIn(u.txOutId, u.txOutIndex, Sign(KeyFor(u.address), id))
    IN Transaction(id, <<in, in>>, txOuts)

PeerTxsOn(u) ==
    { SpendTx(u, PeerAddress, u.amount),       \* valid
      SpendTx(u, PeerAddress, u.amount + 1),   \* outputs exceed inputs
      SpendTx(u, BadAddress, u.amount),        \* invalid output address
      UnsignedTx(u),
      TamperedIdTx(u),
      DoubleInputTx(u) }

\* The unspent outputs whose key a peer can hold: all but the node's own.
PeerOwned(uTxOs) ==
    LET NotMine(uTxO) == KeyFor(uTxO.address) # MyAddress IN SelectSeq(uTxOs, NotMine)

\* Peers build on the oldest of these outputs, and spend the newest one.
PeerTxs(uTxOs) ==
    LET owned == PeerOwned(uTxOs)
    IN IF owned = <<>> THEN {}
       ELSE PeerTxsOn(owned[1])
            \cup {SpendTx(owned[Len(owned)], PeerAddress, owned[Len(owned)].amount)}

\* The transactions that make up the longer arrays.
SeriesTxs(uTxOs) ==
    LET owned == PeerOwned(uTxOs)
    IN IF owned = <<>> THEN {}
       ELSE { SpendTx(owned[1], PeerAddress, owned[1].amount),
              UnsignedTx(owned[1]),
              SpendTx(owned[Len(owned)], MyAddress, owned[Len(owned)].amount) }

\* The arrays a RESPONSE_TRANSACTION_POOL frame may carry.
ReceivedTxLists(uTxOs) ==
    {<<>>}
    \cup {<<t>> : t \in PeerTxs(uTxOs)}
    \cup UNION {[1..n -> SeriesTxs(uTxOs)] : n \in 2..MaxRecvTxs}

\* The blocks of a RESPONSE_BLOCKCHAIN frame are what the peer wrote into it.  The
\* proof a peer writes into a block with these members: the least number of
\* ProofRange for which the digest of the members has (mined) or has not (not
\* mined) `difficulty` leading zero bits, 0 when there is none.  The peer does its
\* own arithmetic: a negative difficulty, for which findBlock raises, is met by
\* every digest.
PeerProof(index, previousHash, timestamp, transactions, difficulty, mined) ==
    LET Meets(p) ==
            LeadingZeroBits(generateHash(index, previousHash, timestamp,
                                         transactions, difficulty, p)) >= difficulty
        fit == {p \in ProofRange : Meets(p) = mined}
    IN IF fit = {} THEN 0 ELSE CHOOSE p \in fit : \A q \in fit : p <= q

\* The block a peer writes on the chain `prefix` with these members, the hash being
\* the digest of the members (hashOk) or another string.  transactions is a value,
\* an array or not.
PeerBlockOf(prefix, transactions, index, timestamp, difficulty, mined, hashOk) ==
    LET previousHash == getLastBlock(prefix).hash
        proof == PeerProof(index, previousHash, timestamp, transactions, difficulty, mined)
    IN Block(index, timestamp, transactions,
             IF hashOk
             THEN generateHash(index, previousHash, timestamp, transactions,
                               difficulty, proof)
             ELSE TamperedHash,
             previousHash, difficulty, proof)

\* That block with an array of transactions.
PeerBlock(prefix, transactions, index, timestamp, difficulty, mined, hashOk) ==
    PeerBlockOf(prefix, JsArray(transactions), index, timestamp, difficulty, mined, hashOk)

\* The block a peer writes on `prefix` with the next index, the difficulty that
\* getDifficulty names for it, whatever its sign, and a proof that meets it.
PrescribedBlock(prefix, transactions, dateNow) ==
    PeerBlock(prefix, transactions, getLastBlock(prefix).index + 1, dateNow,
              getDifficulty(prefix), TRUE, TRUE)

\* That block with its difficulty changed: one below the prescribed value, and one
\* above it with a proof that does not reach it.
DifficultyVariants(prefix, dateNow) ==
    LET index == getLastBlock(prefix).index + 1
        cb == <<getCoinbaseTransaction(PeerAddress, index)>>
        d == getDifficulty(prefix)
    IN { PeerBlock(prefix, cb, index, dateNow, d - 1, TRUE, TRUE),
         PeerBlock(prefix, cb, index, dateNow, d + 1, FALSE, TRUE) }

\* A block whose JSON carries no hash.
WithoutHash(block) ==
    LET NotHash(field) == field.name # "hash"
    IN [f \in DOMAIN block \ {"hash"} |->
           IF f = "fields" THEN SelectSeq(block.fields, NotHash) ELSE block[f]]

\* A block whose JSON carries, as the member `name`, a value of another type.
Retyped(block, name, value) ==
    [block EXCEPT !.fields =
        [i \in 1..Len(block.fields) |->
            IF block.fields[i].name = name
            THEN [name |-> name, type |-> value.type, text |-> value.text]
            ELSE block.fields[i]]]

\* The prescribed block with one other header field changed, left out or of
\* another type.
HeaderVariants(prefix, dateNow) ==
    LET index == getLastBlock(prefix).index + 1
        cb == <<getCoinbaseTransaction(PeerAddress, index)>>
        d == getDifficulty(prefix)
    IN { PeerBlock(prefix, cb, index, getLastBlock(prefix).timestamp - TimestampTolerance,
                   d, TRUE, TRUE),
         PeerBlock(prefix, cb, index, dateNow + TimestampTolerance, d, TRUE, TRUE),
         PeerBlock(prefix, cb, index, dateNow, d, TRUE, FALSE),
         PeerBlock(prefix, cb, index + 1, dateNow, d, TRUE, TRUE),
         WithoutHash(PeerBlock(prefix, cb, index, dateNow, d, TRUE, TRUE)),
         Retyped(PeerBlock(prefix, cb, index, dateNow, d, TRUE, TRUE), "timestamp",
                 JsString(ToStr(dateNow))) }

\* The prescribed block with, in the place of its transactions, a value that is no
\* array.
BodyVariants(prefix, dateNow) ==
    { PeerBlockOf(prefix, value, getLastBlock(prefix).index + 1, dateNow,
                  getDifficulty(prefix), TRUE, TRUE) :
          value \in {JsNull, JsObject, JsString(<<"a", "b", "c">>)} }

\* First transactions for a block at `index` that differ from the coinbase in one place.
CoinbaseVariants(index, uTxOs) ==
    LET Make(txIns, txOuts) ==
            Transaction(getTransactionId([txIns |-> txIns, txOuts |-> txOuts]), txIns, txOuts)
        out == <<TxOut(PeerAddress, COINBASE_AMOUNT)>>
        anId == IF uTxOs = <<>> THEN genesisTransaction.id ELSE uTxOs[Len(uTxOs)].txOutId
    IN { Make(<<TxIn(EmptyStr, index + 1, EmptyStr)>>, out),            \* wrong index
         Make(<<TxIn(EmptyStr, index, EmptyStr)>>,
              <<TxOut(PeerAddress, COINBASE_AMOUNT + 1)>>),            \* wrong amount
         Make(<<TxIn(anId, index, EmptyStr)>>, out),                    \* txOutId set
         Make(<<TxIn(EmptyStr, index, Sign(PeerAddress, anId))>>, out)  \* signature set
       }

\* Transaction lists for a block at `index` over the unspent outputs uTxOs.
PayloadVariants(index, uTxOs) ==
    LET cb == getCoinbaseTransaction(PeerAddress, index)
    IN {<<>>, <<cb>>, <<getCoinbaseTransaction(CompressedPeerAddress, index)>>}
       \cup {<<c>> : c \in CoinbaseVariants(index, uTxOs)}
       \cup {<<cb, SpendTx(NewUnspentOf(cb)[1], PeerAddress, COINBASE_AMOUNT)>>}
       \cup (IF PeerOwned(uTxOs) = <<>> THEN {}
             ELSE LET u == PeerOwned(uTxOs)[1] IN
                  { <<cb, SpendTx(u, PeerAddress, u.amount)>>,
                    <<cb, SpendTx(u, PeerAddress, u.amount + 1)>>,
                    <<cb, UnsignedTx(u)>>,
                    <<cb, SpendTx(u, PeerAddress, u.amount), SpendTx(u, MyAddress, u.amount)>> })

\* What the body of POST /mine-raw may carry as data when it is no array: nothing,
\* the number 0, the empty string, another string.
MalformedBodies ==
    {JsUndefined, JsNull, JsObject, JsNumber(0), JsString(EmptyStr), JsString(<<"a", "b", "c">>)}

\* The bodies of POST /mine-raw for a block at `index`.
MineRawBodies(index, uTxOs) ==
    {JsArray(transactions) : transactions \in PayloadVariants(index, uTxOs)}
    \cup MalformedBodies

\* The blocks a peer may offer as the next block of `prefix`.
NextBlocks(prefix, uTxOs, dateNow) ==
    HeaderVariants(prefix, dateNow)
    \cup BodyVariants(prefix, dateNow)
    \cup DifficultyVariants(prefix, dateNow)
    \cup { PrescribedBlock(prefix, txs, dateNow) :
               txs \in PayloadVariants(getLastBlock(prefix).index + 1, uTxOs) }

\* Replay of a chain's transactions without validation: the unspent outputs a peer
\* holds after the blocks of `chain`.
RECURSIVE UTxOsAfter(_)
UTxOsAfter(chain) ==
    IF chain = <<>> THEN <<>>
    ELSE updateUnspentTxOuts(chain[Len(chain)].transactions,
                             UTxOsAfter(SubSeq(chain, 1, Len(chain) - 1)))

\* The chain of n blocks that goes on from `prefix` with prescribed blocks.
RECURSIVE Extend(_, _, _)
Extend(prefix, n, dateNow) ==
    IF Len(prefix) >= n THEN prefix
    ELSE Extend(
             Append(prefix,
                    PrescribedBlock(prefix,
                                <<getCoinbaseTransaction(PeerAddress,
                                                         getLastBlock(prefix).index + 1)>>,
                                dateNow)),
             n, dateNow)

\* The last block of a peer's chain when it is not the prescribed one.
ChainDeviations(prefix, dateNow) ==
    LET index == getLastBlock(prefix).index + 1
        cb == getCoinbaseTransaction(PeerAddress, index)
        u == UTxOsAfter(prefix)[1]
    IN DifficultyVariants(prefix, dateNow)
       \cup { PeerBlock(prefix, <<cb>>, index, dateNow, getDifficulty(prefix), TRUE, FALSE),
              PrescribedBlock(prefix, <<cb, SpendTx(u, PeerAddress, u.amount)>>, dateNow),
              PrescribedBlock(prefix, <<cb, UnsignedTx(u)>>, dateNow) }

AlteredGenesis == [genesisBlock EXCEPT !.timestamp = GenesisTimestamp + 1]

\* The genesis block in a JSON whose keys come in another order: the hash first.
ReorderedGenesis ==
    [genesisBlock EXCEPT !.fields = <<@[4]>> \o SubSeq(@, 1, 3) \o SubSeq(@, 5, 7)]

\* Chains of n blocks a peer may send: prescribed blocks on the genesis block,
\* ending in a prescribed or in a deviating block, or prescribed blocks on an
\* altered or a reordered genesis block.
PeerChains(n, dateNow) ==
    {Extend(<<genesisBlock>>, n, dateNow),
     Extend(<<AlteredGenesis>>, n, dateNow),
     Extend(<<ReorderedGenesis>>, n, dateNow)}
    \cup { Append(Extend(<<genesisBlock>>, n - 1, dateNow), b) :
               b \in ChainDeviations(Extend(<<genesisBlock>>, n - 1, dateNow), dateNow) }

\* The arrays a RESPONSE_BLOCKCHAIN frame may carry: a peer's answer to
\* QUERY_LATEST (one block) or to QUERY_ALL (a chain).
ReceivedBlockLists(chain, uTxOs, dateNow) ==
    {<<>>, <<genesisBlock>>}
    \cup {<<b>> : b \in NextBlocks(chain, uTxOs, dateNow)}
    \cup UNION {PeerChains(n, dateNow) : n \in 2..MaxChain}
    \cup {<<getLastBlock(Extend(<<genesisBlock>>, n, dateNow))>> : n \in 2..MaxChain}

\* The bodies of POST /send-transaction and POST /mine-transaction.  The handlers
\* answer 400 to a body whose amount is 0 and go on; neither they nor the functions
\* they call test the sign of the amount or the receiver against the node's key.
Payments ==
    {[address |-> PeerAddress, amount |-> 20],
     [address |-> PeerAddress, amount |-> COINBASE_AMOUNT],
     [address |-> PeerAddress, amount |-> 10000],
     [address |-> BadAddress, amount |-> 20],
     [address |-> PeerAddress, amount |-> 0],
     [address |-> PeerAddress, amount |-> -20],
     [address |-> MyAddress, amount |-> 20],
     [address |-> MyAddress, amount |-> -20]}

(***************************************************************************)
(* The state machine                                                       *)
(***************************************************************************)
StartTime == GenesisTimestamp + StartDelay

Op(op, ret) == [op |-> op, ret |-> ret]

\* No handler is running: the event loop is free to take the next event.
Idle == last = Op("idle", "ok")

Init ==
    /\ blockchain = <<genesisBlock>>
    /\ unspentTxOuts = processTransactions(TransactionsOf(genesisBlock), <<>>, 0).unspentTxOuts
    /\ transactionPool = <<>>
    /\ sockets = <<>>
    /\ timers = 0
    /\ now = StartTime
    /\ sent = <<>>
    /\ last = Op("idle", "ok")
    /\ wallet = KeyFile(MyAddress)    \* index.ts: initWallet() at start-up

\* Date.now() advances between two events.
Tick ==
    /\ Idle
    /\ now < StartTime + MaxTicks * ClockStep
    /\ now' = now + ClockStep
    /\ UNCHANGED <<wallet, blockchain, unspentTxOuts, transactionPool, sockets, timers,
                   sent, last>>

\* The handler has run to completion: its frames have left and its result is
\* delivered; the event loop takes the next event.
Return ==
    /\ ~Idle
    /\ sent' = <<>>
    /\ last' = Op("idle", "ok")
    /\ UNCHANGED <<wallet, blockchain, unspentTxOuts, transactionPool, sockets, timers, now>>

\* POST /mine: generateBlock()
Mine ==
    /\ Idle
    /\ \E r \in {generateBlock(wallet, blockchain, unspentTxOuts, transactionPool, sockets, now)} :
          /\ Len(r.chain) <= MaxChain
          /\ blockchain' = r.chain
          /\ unspentTxOuts' = r.unspentTxOuts
          /\ sent' = r.sent
          /\ last' = Op("mine", r.ret)
    /\ UNCHANGED <<wallet, transactionPool, sockets, timers, now>>

\* POST /mine-raw: generateRawBlock({ transactions: data }), whatever data is: the
\* handler answers 400 to a body without data and goes on.
MineRaw ==
    /\ Idle
    /\ \E data \in MineRawBodies(getLastBlock(blockchain).index + 1, unspentTxOuts) :
         \E r \in {generateRawBlock(data, blockchain, unspentTxOuts, sockets, now)} :
            /\ Len(r.chain) <= MaxChain
            /\ blockchain' = r.chain
            /\ unspentTxOuts' = r.unspentTxOuts
            /\ sent' = r.sent
            /\ last' = Op("mineRaw", r.ret)
    /\ UNCHANGED <<wallet, transactionPool, sockets, timers, now>>

\* POST /mine-transaction: generateBlockWithTransaction({ address, amount })
MineTransaction ==
    /\ Idle
    /\ \E p \in Payments :
         \E r \in {generateBlockWithTransaction(p.address, p.amount, wallet, blockchain,
                                                    unspentTxOuts, transactionPool, sockets,
                                                    now)} :
            /\ Len(r.chain) <= MaxChain
            /\ blockchain' = r.chain
            /\ unspentTxOuts' = r.unspentTxOuts
            /\ sent' = r.sent
            /\ last' = Op("mineTransaction", r.ret)
    /\ UNCHANGED <<wallet, transactionPool, sockets, timers, now>>

\* POST /send-transaction: sendTransaction({ address, amount })
SendTransaction ==
    /\ Idle
    /\ \E p \in Payments :
         \E r \in {sendTransaction(p.address, p.amount, wallet, unspentTxOuts,
                                       transactionPool, sockets)} :
            /\ Len(r.pool) <= MaxPool
            /\ transactionPool' = r.pool
            /\ sent' = r.sent
            /\ last' = Op("sendTransaction", r.ret)
    /\ UNCHANGED <<wallet, blockchain, unspentTxOuts, sockets, timers, now>>

SocketSet == {sockets[i] : i \in 1..Len(sockets)}

\* handleMessage, case RESPONSE_BLOCKCHAIN with data that parses to an array.
\* An exception raised below is caught and logged by handleMessage.
ReceiveBlockchain ==
    /\ Idle
    /\ sockets # <<>>
    /\ \E receivedBlocks \in ReceivedBlockLists(blockchain, unspentTxOuts, now) :
         \E r \in {handleBlockchainResponse(receivedBlocks, blockchain, unspentTxOuts,
                                                transactionPool, sockets, now)} :
            /\ Len(r.chain) <= MaxChain
            /\ blockchain' = r.chain
            /\ unspentTxOuts' = r.unspentTxOuts
            /\ transactionPool' = r.pool
            /\ sent' = r.sent
            /\ last' = Op(r.branch, r.ret)
    /\ UNCHANGED <<wallet, sockets, timers, now>>

\* handleMessage, case RESPONSE_TRANSACTION_POOL with data that parses to an array.
ReceiveTransactionPool ==
    /\ Idle
    /\ sockets # <<>>
    /\ \E receivedTransactions \in ReceivedTxLists(unspentTxOuts) :
         \E r \in {handleTransactionPoolResponse(receivedTransactions, unspentTxOuts,
                                                     transactionPool, sockets)} :
            /\ Len(r.pool) <= MaxPool
            /\ transactionPool' = r.pool
            /\ sent' = r.sent
            /\ last' = Op("transactionPool", r.ret)
    /\ UNCHANGED <<wallet, blockchain, unspentTxOuts, sockets, timers, now>>

ReceiveQuery_ReplyToAll ==
    /\ Idle
    /\ \E socket \in SocketSet, type \in {QUERY_LATEST, QUERY_ALL, QUERY_TRANSACTION_POOL} :
         /\ sent' = broadcastMessage(
                        IF type = QUERY_LATEST THEN responseLatestMsg(blockchain)
                        ELSE IF type = QUERY_ALL THEN responseChainMsg(blockchain)
                        ELSE responseTransactionPoolMsg(transactionPool), sockets)
         /\ last' = [op |-> "query", ret |-> "ok", type |-> type, socket |-> socket]
    /\ UNCHANGED <<wallet, blockchain, unspentTxOuts, transactionPool, sockets, timers, now>>

\* handleMessage, the three queries: one reply on the socket the query came on.
\* `last` keeps the type of the query and the socket next to the result.
ReceiveQuery ==
    /\ Idle
    /\ \E socket \in SocketSet, type \in {QUERY_LATEST, QUERY_ALL, QUERY_TRANSACTION_POOL} :
         /\ sent' = sendMessage(socket,
                        IF type = QUERY_LATEST THEN responseLatestMsg(blockchain)
                        ELSE IF type = QUERY_ALL THEN responseChainMsg(blockchain)
                        ELSE responseTransactionPoolMsg(transactionPool))
         /\ last' = [op |-> "query", ret |-> "ok", type |-> type, socket |-> socket]
    /\ UNCHANGED <<wallet, blockchain, unspentTxOuts, transactionPool, sockets, timers, now>>

\* handleMessage on a frame that is no JSON, has an unknown type, or carries data
\* that does not parse: logged, nothing else.
ReceiveInvalid ==
    /\ Idle
    /\ sockets # <<>>
    /\ sent' = <<>>
    /\ last' = Op("invalid", "ok")
    /\ UNCHANGED <<wallet, blockchain, unspentTxOuts, transactionPool, sockets, timers, now>>

\* initConnection(socket): on an inbound connection or when an outbound socket opens.
initConnection(socket) ==
    /\ timers < MaxTimers
    /\ sockets' = Append(sockets, socket)
    /\ timers' = timers + 1
    /\ sent' = sendMessage(socket, queryChainLengthMsg)
    /\ last' = Op("initConnection", "ok")

\* server.on('connection')
InboundConnection ==
    /\ Idle
    /\ \E socket \in Peers \ SocketSet : initConnection(socket)
    /\ UNCHANGED <<wallet, blockchain, unspentTxOuts, transactionPool, now>>

\* POST /add-peer: connectToPeer(peerUrl), and the socket opens.
OutboundOpen ==
    /\ Idle
    /\ \E socket \in Peers \ SocketSet : initConnection(socket)
    /\ UNCHANGED <<wallet, blockchain, unspentTxOuts, transactionPool, now>>

\* POST /add-peer: connectToPeer(peerUrl), and the socket reports an error
\* instead of opening: logged.
OutboundError ==
    /\ Idle
    /\ Peers \ SocketSet # {}
    /\ sent' = <<>>
    /\ last' = Op("connectError", "ok")
    /\ UNCHANGED <<wallet, blockchain, unspentTxOuts, transactionPool, sockets, timers, now>>

CloseConnection_KeepSocket ==
    /\ Idle
    /\ sockets # <<>>
    /\ sent' = <<>>
    /\ last' = Op("closeConnection", "ok")
    /\ UNCHANGED <<wallet, blockchain, unspentTxOuts, transactionPool, sockets, timers, now>>

\* closeConnection(socket): on 'close' or 'error' of an initialised socket.
CloseConnection ==
    /\ Idle
    /\ \E socket \in SocketSet :
         LET Other(x) == x # socket IN sockets' = SelectSeq(sockets, Other)
    /\ sent' = <<>>
    /\ last' = Op("closeConnection", "ok")
    /\ UNCHANGED <<wallet, blockchain, unspentTxOuts, transactionPool, timers, now>>

\* The setTimeout callback of initConnection: broadcastMessage(queryTransactionPoolMsg()).
PoolQueryTimer ==
    /\ Idle
    /\ timers > 0
    /\ timers' = timers - 1
    /\ sent' = broadcastMessage(queryTransactionPoolMsg, sockets)
    /\ last' = Op("poolQueryTimer", "ok")
    /\ UNCHANGED <<wallet, blockchain, unspentTxOuts, transactionPool, sockets, now>>

Next ==
    \/ Tick
    \/ Return
    \/ Mine
    \/ MineRaw
    \/ MineTransaction
    \/ SendTransaction
    \/ ReceiveBlockchain
    \/ ReceiveTransactionPool
    \/ ReceiveQuery
    \/ ReceiveInvalid
    \/ InboundConnection
    \/ OutboundOpen
    \/ OutboundError
    \/ CloseConnection
    \/ PoolQueryTimer

Spec == Init /\ [][Next]_vars

(***************************************************************************)
(* replaceChain on its own: the function applied to every kind of          *)
(* candidate, on nodes in the states that the events above lead to         *)
(***************************************************************************)
\* The candidate chains: the chains a peer may send, chains of one block, chains
\* whose last block has a header field changed or is linked to another chain, and
\* chains that go on with prescribed blocks after a deviating block.
CandidateChains(dateNow) ==
    {<<genesisBlock>>, <<AlteredGenesis>>, <<ReorderedGenesis>>}
    \cup UNION {PeerChains(n, dateNow) : n \in 2..MaxChain}
    \cup UNION { LET prefix == Extend(<<genesisBlock>>, n - 1, dateNow)
                     index == getLastBlock(prefix).index + 1
                 IN { Append(prefix, b) : b \in HeaderVariants(prefix, dateNow) }
                    \cup { Append(prefix,
                                  PeerBlock(<<AlteredGenesis>>,
                                            <<getCoinbaseTransaction(PeerAddress, index)>>,
                                            index, dateNow, getDifficulty(prefix), TRUE, TRUE)) }
                 : n \in 2..MaxChain }
    \cup UNION { { Extend(<<genesisBlock, b>>, n, dateNow) :
                       b \in ChainDeviations(<<genesisBlock>>, dateNow) }
                 : n \in 3..MaxChain }

\* The chains a node holds: the genesis block alone, or a candidate that a node
\* holding less has taken over.
LocalChains(dateNow) ==
    { c \in CandidateChains(dateNow) :
          \/ c = <<genesisBlock>>
          \/ replaceChain(c, <<genesisBlock>>, UTxOsAfter(<<genesisBlock>>), <<>>, <<>>,
                          dateNow).ret = "true" }

\* The pools a node holds over uTxOs: up to MaxLocalPool spends admitted in turn.
LocalPools(uTxOs) ==
    LET owned == PeerOwned(uTxOs)
        spends == { SpendTx(owned[i], PeerAddress, owned[i].amount) : i \in 1..Len(owned) }
    IN { AdmitReceived(txs, uTxOs, <<>>).pool :
             txs \in UNION {[1..n -> spends] : n \in 0..MaxLocalPool} }

ReplaceChainInit ==
    /\ blockchain \in LocalChains(StartTime)
    /\ unspentTxOuts = UTxOsAfter(blockchain)
    /\ transactionPool \in LocalPools(unspentTxOuts)
    /\ sockets \in {<<>>, <<"p1">>, <<"p1", "p2">>}
    /\ timers = 0
    /\ now \in {StartTime, StartTime + ClockStep}
    /\ sent = <<>>
    /\ last = Op("idle", "ok")
    /\ wallet = KeyFile(MyAddress)

\* replaceChain(newChain); `last` keeps the argument next to the result.
CallReplaceChain ==
    /\ Idle
    /\ \E newChain \in CandidateChains(now) :
           \E r \in {replaceChain(newChain, blockchain, unspentTxOuts, transactionPool,
                                      sockets, now)} :
              /\ blockchain' = r.chain
              /\ unspentTxOuts' = r.unspentTxOuts
              /\ transactionPool' = r.pool
              /\ sent' = r.sent
              /\ last' = [op |-> "replaceChain", ret |-> r.ret, newChain |-> newChain]
    /\ UNCHANGED <<wallet, sockets, timers, now>>

ReplaceChainNext == CallReplaceChain \/ Return

ReplaceChainSpec == ReplaceChainInit /\ [][ReplaceChainNext]_vars

(***************************************************************************)
(* addToTransactionPool on its own, on the same nodes                      *)
(***************************************************************************)
\* The transactions offered to the pool over uTxOs: on each output a peer can
\* sign for, the valid spend and its variants, a spend to the node, and the
\* transactions that spend two of these outputs; and a spend of an unknown output.
OfferedTxs(uTxOs) ==
    LET owned == PeerOwned(uTxOs)
        unknown == UnspentTxOut(TamperedId, 0, PeerAddress, COINBASE_AMOUNT)
    IN UNION { PeerTxsOn(owned[i]) \cup {SpendTx(owned[i], MyAddress, owned[i].amount)} :
                   i \in 1..Len(owned) }
       \cup { TwoInputTx(owned[i], owned[j]) : i, j \in 1..Len(owned) }
       \cup { SpendTx(unknown, PeerAddress, unknown.amount) }

\* addToTransactionPool(transaction, getUnspentTxOuts()); `last` keeps the argument
\* next to the result.
CallAddToTransactionPool ==
    /\ Idle
    /\ \E transaction \in OfferedTxs(unspentTxOuts) :
           \E r \in {addToTransactionPool(transaction, unspentTxOuts, transactionPool)} :
              /\ transactionPool' = r.pool
              /\ last' = [op |-> "addToTransactionPool",
                          ret |-> IF r.threw THEN "threw" ELSE "ok",
                          transaction |-> transaction]
    /\ sent' = <<>>
    /\ UNCHANGED <<wallet, blockchain, unspentTxOuts, sockets, timers, now>>

\* addToTransactionPool on a transaction with an output that carries no value:
\* Split(u, b) spends u into two outputs, the second of amount b (zero or
\* negative) and the first of the rest, so that the sums agree.
CallAddWithoutValue ==
    /\ Idle
    /\ \E i \in 1..Len(PeerOwned(unspentTxOuts)), b \in {0, -10} :
           LET u == PeerOwned(unspentTxOuts)[i]
               txOuts == <<TxOut(PeerAddress, u.amount - b), TxOut(PeerAddress, b)>>
               id == getTransactionId([txIns |-> <<TxIn(u.txOutId, u.txOutIndex, EmptyStr)>>,
                                       txOuts |-> txOuts])
               transaction ==
                   Transaction(id, <<TxIn(u.txOutId, u.txOutIndex, Sign(KeyFor(u.address), id))>>,
                               txOuts)
               r == addToTransactionPool(transaction, unspentTxOuts, transactionPool)
           IN /\ transactionPool' = r.pool
              /\ last' = [op |-> "addToTransactionPool",
                          ret |-> IF r.threw THEN "threw" ELSE "ok",
                          transaction |-> transaction]
    /\ sent' = <<>>
    /\ UNCHANGED <<wallet, blockchain, unspentTxOuts, sockets, timers, now>>

AddToPoolNext == CallAddToTransactionPool \/ CallAddWithoutValue \/ Return

AddToPoolSpec == ReplaceChainInit /\ [][AddToPoolNext]_vars

(***************************************************************************)
(* handleBlockchainResponse on its own, on the same nodes                  *)
(***************************************************************************)
\* handleBlockchainResponse(message.data) on data that parses to an array: what a
\* peer may answer to QUERY_LATEST or QUERY_ALL, and the candidate chains.  `last`
\* keeps the array next to the branch taken and the result.
CallHandleBlockchainResponse ==
    /\ Idle
    /\ \E receivedBlocks \in ReceivedBlockLists(blockchain, unspentTxOuts, now)
                              \cup CandidateChains(now) :
           \E r \in {handleBlockchainResponse(receivedBlocks, blockchain, unspentTxOuts,
                                                  transactionPool, sockets, now)} :
              /\ Len(r.chain) <= MaxChain
              /\ blockchain' = r.chain
              /\ unspentTxOuts' = r.unspentTxOuts
              /\ transactionPool' = r.pool
              /\ sent' = r.sent
              /\ last' = [op |-> r.branch, ret |-> r.ret, receivedBlocks |-> receivedBlocks]
    /\ UNCHANGED <<wallet, sockets, timers, now>>

BlockchainResponseNext == CallHandleBlockchainResponse \/ Return

BlockchainResponseSpec == ReplaceChainInit /\ [][BlockchainResponseNext]_vars

(***************************************************************************)
(* The RESPONSE_TRANSACTION_POOL case on its own, on the same nodes        *)
(***************************************************************************)
\* handleMessage, case RESPONSE_TRANSACTION_POOL, on data that parses to an array;
\* `last` keeps the array next to the result.
CallHandleTransactionPoolResponse ==
    /\ Idle
    /\ \E receivedTransactions \in ReceivedTxLists(unspentTxOuts) :
           \E r \in {handleTransactionPoolResponse(receivedTransactions, unspentTxOuts,
                                                       transactionPool, sockets)} :
              /\ transactionPool' = r.pool
              /\ sent' = r.sent
              /\ last' = [op |-> "transactionPool", ret |-> r.ret,
                          receivedTransactions |-> receivedTransactions]
    /\ UNCHANGED <<wallet, blockchain, unspentTxOuts, sockets, timers, now>>

PoolResponseSpec ==
    ReplaceChainInit /\ [][CallHandleTransactionPoolResponse \/ Return]_vars

(***************************************************************************)
(* broadcastMessage with sockets whose send raises                         *)
(***************************************************************************)
\* sockets.forEach((socket) => sendMessage(socket, message)) when socket.send
\* raises on the sockets in `broken`: sendMessage catches and logs, and forEach
\* goes on.  attempts are the sockets socket.send was called on, failed the ones
\* it raised on, sent the frames written.
broadcastMessage_NoCatch(message, socks, broken) ==
    LET Broken(i) == socks[i] \in broken
        first == IF \E i \in 1..Len(socks) : Broken(i)
                 THEN CHOOSE i \in 1..Len(socks) :
                          Broken(i) /\ \A j \in 1..(i - 1) : ~Broken(j)
                 ELSE Len(socks) + 1
    IN [attempts |-> SubSeq(socks, 1, IF first > Len(socks) THEN Len(socks) ELSE first),
        failed |-> IF first > Len(socks) THEN <<>> ELSE <<socks[first]>>,
        sent |-> broadcastMessage(message, SubSeq(socks, 1, first - 1))]

RECURSIVE broadcastMessageOver(_, _, _)
broadcastMessageOver(message, socks, broken) ==
    IF socks = <<>> THEN [attempts |-> <<>>, failed |-> <<>>, sent |-> <<>>]
    ELSE LET socket == Head(socks)
             rest == broadcastMessageOver(message, Tail(socks), broken)
         IN [attempts |-> <<socket>> \o rest.attempts,
             failed |-> (IF socket \in broken THEN <<socket>> ELSE <<>>) \o rest.failed,
             sent |-> (IF socket \in broken THEN <<>> ELSE sendMessage(socket, message))
                          \o rest.sent]

\* broadcastMessage(message) for the messages the node broadcasts, with any set of
\* sockets failing.
CallBroadcastMessage ==
    /\ Idle
    /\ \E broken \in SUBSET Peers,
          message \in {queryAllMsg, queryTransactionPoolMsg, responseLatestMsg(blockchain),
                       responseTransactionPoolMsg(transactionPool)} :
           \E r \in {broadcastMessageOver(message, sockets, broken)} :
              /\ sent' = r.sent
              /\ last' = [op |-> "broadcastMessage", ret |-> "ok", message |-> message,
                          attempts |-> r.attempts, failed |-> r.failed]
    /\ UNCHANGED <<wallet, blockchain, unspentTxOuts, transactionPool, sockets, timers, now>>

BroadcastSpec == ReplaceChainInit /\ [][CallBroadcastMessage \/ Return]_vars

(***************************************************************************)
(* Blocks whose transactions need no coins                                 *)
(***************************************************************************)
\* A transaction without inputs: validateTransaction accepts it when its outputs
\* sum to zero.
UnfundedTx(address, amount) ==
    LET txOuts == <<TxOut(address, amount)>>
    IN Transaction(getTransactionId([txIns |-> <<>>, txOuts |-> txOuts]), <<>>, txOuts)

\* Bodies of POST /mine-raw for the block at `index` made of the coinbase, the
\* transaction without inputs and a transaction that spends its output.
UnfundedPayloads(index) ==
    LET cb == getCoinbaseTransaction(PeerAddress, index)
        free == UnfundedTx(PeerAddress, 0)
        respend == SpendTx(NewUnspentOf(free)[1], PeerAddress, 0)
    IN {<<cb, free>>, <<cb, respend>>, <<cb, free, respend>>, <<cb, respend, free>>}

\* Bodies of POST /mine-raw for the block at `index` in which the oldest output a
\* peer holds is split in three, or in which the TxIn of the coinbase names an
\* unspent output whose txOutIndex is the index of the block.
CoinbaseSpendPayloads(index, uTxOs) ==
    LET Make(txIns, txOuts) ==
            Transaction(getTransactionId([txIns |-> txIns, txOuts |-> txOuts]), txIns, txOuts)
        cb == getCoinbaseTransaction(PeerAddress, index)
        owned == PeerOwned(uTxOs)
        AtIndex(uTxO) == uTxO.txOutIndex = index
        named == SelectSeq(uTxOs, AtIndex)
    IN (IF owned = <<>> \/ owned[1].amount < COINBASE_AMOUNT THEN {}
        ELSE LET u == owned[1]
                 txOuts == <<TxOut(PeerAddress, u.amount - 20), TxOut(PeerAddress, 10),
                             TxOut(PeerAddress, 10)>>
                 id == getTransactionId([txIns |-> <<TxIn(u.txOutId, u.txOutIndex, EmptyStr)>>,
                                         txOuts |-> txOuts])
                 txIns == <<TxIn(u.txOutId, u.txOutIndex, Sign(KeyFor(u.address), id))>>
             IN {<<cb, Transaction(id, txIns, txOuts)>>})
       \cup {<<Make(<<TxIn(named[i].txOutId, index, EmptyStr)>>,
                    <<TxOut(PeerAddress, COINBASE_AMOUNT)>>)>> : i \in 1..Len(named)}

\* Bodies of POST /mine-raw for the block at `index` whose coinbase pays an address
\* in another encoding of a peer's key (compressed, upper case) or a string that
\* encodes no key, and bodies that spend the oldest output at such an address.
EncodedKeyPayloads(index, uTxOs) ==
    LET cb == getCoinbaseTransaction(PeerAddress, index)
        Encoded(uTxO) == uTxO.address \in {CompressedPeerAddress, UpperPeerAddress, BadAddress}
        encoded == SelectSeq(uTxOs, Encoded)
    IN { <<getCoinbaseTransaction(address, index)>> :
             address \in {CompressedPeerAddress, UpperPeerAddress, BadAddress} }
       \cup (IF encoded = <<>> THEN {}
             ELSE {<<cb, SpendTx(encoded[1], PeerAddress, encoded[1].amount)>>})

\* POST /mine-raw: generateRawBlock({ transactions: data }); `last` keeps the
\* data, its elements and its type, next to the result.
MineRawUnfunded ==
    /\ Idle
    /\ \E data \in
             {JsArray(transactions) : transactions \in
                  UnfundedPayloads(getLastBlock(blockchain).index + 1)
                  \cup CoinbaseSpendPayloads(getLastBlock(blockchain).index + 1, unspentTxOuts)
                  \cup EncodedKeyPayloads(getLastBlock(blockchain).index + 1, unspentTxOuts)}
             \cup MineRawBodies(getLastBlock(blockchain).index + 1, unspentTxOuts) :
         \E r \in {generateRawBlock(data, blockchain, unspentTxOuts, sockets, now)} :
            /\ Len(r.chain) <= MaxChain
            /\ blockchain' = r.chain
            /\ unspentTxOuts' = r.unspentTxOuts
            /\ sent' = r.sent
            /\ last' = [op |-> "mineRaw", ret |-> r.ret, transactions |-> data.elements,
                        type |-> data.type]
    /\ UNCHANGED <<wallet, transactionPool, sockets, timers, now>>

UnspentSpec == Init /\ [][MineRawUnfunded \/ Tick \/ Return]_vars

(***************************************************************************)
(* initializeChain                                                         *)
(***************************************************************************)
\* createGenesisBlock(): the genesis transaction in a block stamped Date.now().
createGenesisBlock(dateNow) ==
    Block(0, dateNow, JsArray(<<genesisTransaction>>),
          generateHash(0, EmptyStr, dateNow, JsArray(<<genesisTransaction>>), 0, 0),
          EmptyStr, 0, 0)

\* blockchain.push(createGenesisBlock())
initializeChain(chain, dateNow) == Append(chain, createGenesisBlock(dateNow))

\* blockchain.ts exports initializeChain, and neither the controller nor a handler
\* of the node calls it, so it is no step of Next; this is what a call would do.
CallInitializeChain ==
    /\ Idle
    /\ Len(blockchain) < MaxChain
    /\ blockchain' = initializeChain(blockchain, now)
    /\ last' = Op("initializeChain", "ok")
    /\ UNCHANGED <<wallet, unspentTxOuts, transactionPool, sockets, timers, now, sent>>

InitializeChainSpec == Init /\ [][CallInitializeChain \/ Mine \/ Tick \/ Return]_vars

(***************************************************************************)
(* initWallet and deleteWallet                                             *)
(***************************************************************************)
\* wallet.ts exports initWallet and deleteWallet.  index.ts calls initWallet() once,
\* when the node starts (the key file of Init), and neither the controller nor a
\* handler of the node calls either of them, so they are no steps of Next; this is
\* what a call would do.
CallInitWallet ==
    /\ Idle
    /\ \E privateKey \in PrivateKeys : wallet' = initWallet(wallet, privateKey)
    /\ last' = Op("initWallet", "ok")
    /\ UNCHANGED <<blockchain, unspentTxOuts, transactionPool, sockets, timers, now, sent>>

CallDeleteWallet ==
    /\ Idle
    /\ wallet' = deleteWallet(wallet)
    /\ last' = Op("deleteWallet", "ok")
    /\ UNCHANGED <<blockchain, unspentTxOuts, transactionPool, sockets, timers, now, sent>>

WalletFileSpec ==
    Init /\ [][CallInitWallet \/ CallDeleteWallet \/ Mine \/ MineTransaction
                  \/ SendTransaction \/ InboundConnection \/ Return]_vars

(***************************************************************************)
(* validateTimestamp on its own                                            *)
(***************************************************************************)
\* Distances in ms between two timestamps, and between a timestamp and the clock:
\* around zero, around 60 ms and around one minute, on both sides.
TimeOffsets ==
    {-60001, -60000, -59999, -61, -60, -59, 0, 59, 60, 61, 59999, 60000, 60001}

\* A fresh node whose clock reads any of these distances from the timestamp of its
\* last block.
TimestampInit ==
    /\ blockchain = <<genesisBlock>>
    /\ unspentTxOuts = UTxOsAfter(blockchain)
    /\ transactionPool = <<>>
    /\ sockets = <<>>
    /\ timers = 0
    /\ now \in {getLastBlock(blockchain).timestamp + d : d \in TimeOffsets}
    /\ sent = <<>>
    /\ last = Op("idle", "ok")
    /\ wallet = KeyFile(MyAddress)

\* validateTimestamp(newBlock, previousBlock) on a block built on the last block
\* of the chain; `last` keeps the arguments next to the result.
CallValidateTimestamp ==
    /\ Idle
    /\ \E d \in TimeOffsets :
           LET previousBlock == getLastBlock(blockchain)
               index == previousBlock.index + 1
               newBlock == PeerBlock(blockchain,
                                     <<getCoinbaseTransaction(PeerAddress, index)>>, index,
                                     previousBlock.timestamp + d,
                                     getDifficulty(blockchain), TRUE, TRUE)
           IN last' = [op |-> "validateTimestamp",
                       ret |-> IF validateTimestamp(newBlock, previousBlock, now)
                               THEN "true" ELSE "false",
                       newBlock |-> newBlock, previousBlock |-> previousBlock]
    /\ UNCHANGED <<wallet, blockchain, unspentTxOuts, transactionPool, sockets, timers, now, sent>>

TimestampNext == CallValidateTimestamp \/ Return

TimestampSpec == TimestampInit /\ [][TimestampNext]_vars

(***************************************************************************)
(* Mining up to the first retarget: a fresh node that mines                *)
(* DIFFICULTY_ADJUSTMENT_INTERVAL blocks, at once or GapStep ms apart      *)
(***************************************************************************)
\* The chain length at which getDifficulty first calls adjustDifficulty.
RetargetLen == DIFFICULTY_ADJUSTMENT_INTERVAL + 1

\* Date.now() advances by GapStep, at most once between two blocks.
WaitForBlock ==
    /\ Idle
    /\ Len(blockchain) < RetargetLen
    /\ now < getLastBlock(blockchain).timestamp + GapStep
    /\ now' = now + GapStep
    /\ UNCHANGED <<wallet, blockchain, unspentTxOuts, transactionPool, sockets, timers,
                   sent, last>>

\* POST /mine: generateBlock(), up to the block of index DIFFICULTY_ADJUSTMENT_INTERVAL
MineToRetarget ==
    /\ Idle
    /\ \E r \in {generateBlock(wallet, blockchain, unspentTxOuts, transactionPool, sockets, now)} :
          /\ Len(r.chain) <= RetargetLen
          /\ blockchain' = r.chain
          /\ unspentTxOuts' = r.unspentTxOuts
          /\ sent' = r.sent
          /\ last' = Op("mine", r.ret)
    /\ UNCHANGED <<wallet, transactionPool, sockets, timers, now>>

RetargetNext == WaitForBlock \/ MineToRetarget \/ Return

RetargetSpec == Init /\ [][RetargetNext]_vars

(***************************************************************************)
(* The wallet: a fresh node that mines, sends payments, mines payments and *)
(* is offered transactions for its pool                                    *)
(***************************************************************************)
\* The bodies of POST /send-transaction: those above and one that needs two of
\* the node's outputs.
WalletPayments == Payments \cup {[address |-> PeerAddress, amount |-> COINBASE_AMOUNT + 20]}

\* POST /send-transaction: sendTransaction({ address, amount }); `last` keeps the
\* body next to the result.
WalletSend ==
    /\ Idle
    /\ \E p \in WalletPayments :
         \E r \in {sendTransaction(p.address, p.amount, wallet, unspentTxOuts,
                                       transactionPool, sockets)} :
            /\ transactionPool' = r.pool
            /\ sent' = r.sent
            /\ last' = [op |-> "sendTransaction", ret |-> r.ret, payment |-> p]
    /\ UNCHANGED <<wallet, blockchain, unspentTxOuts, sockets, timers, now>>

\* POST /mine-transaction: generateBlockWithTransaction({ address, amount }), on
\* chains of up to MaxWalletChain blocks; `last` keeps the body next to the result.
WalletMineTransaction ==
    /\ Idle
    /\ \E p \in WalletPayments :
         \E r \in {generateBlockWithTransaction(p.address, p.amount, wallet, blockchain,
                                                    unspentTxOuts, transactionPool, sockets,
                                                    now)} :
            /\ Len(r.chain) <= MaxWalletChain
            /\ blockchain' = r.chain
            /\ unspentTxOuts' = r.unspentTxOuts
            /\ sent' = r.sent
            /\ last' = [op |-> "mineTransaction", ret |-> r.ret, payment |-> p]
    /\ UNCHANGED <<wallet, transactionPool, sockets, timers, now>>

\* POST /send-transaction on pools of up to MaxWalletPool transactions.
PoolSend == WalletSend /\ Len(transactionPool') <= MaxWalletPool

WalletNext == Mine \/ PoolSend \/ WalletMineTransaction \/ InboundConnection \/ Return

WalletSpec == Init /\ [][WalletNext]_vars

\* addToTransactionPool on a peer's transaction, on such pools.
PoolOffer == CallAddToTransactionPool /\ Len(transactionPool') <= MaxWalletPool

\* The node mines, sends payments and is offered peer transactions for its pool.
WalletPoolNext == Mine \/ PoolSend \/ PoolOffer \/ Return

WalletPoolSpec == Init /\ [][WalletPoolNext]_vars

(***************************************************************************)
(* Two nodes.  Each variable of the node holds one value per node, `sent`  *)
(* holds the frames in flight on each direction of the connection, in      *)
(* order.  The nodes first mine on their own, then n1 dials n2; after that *)
(* only frames move and timers fire.                                       *)
(***************************************************************************)
Nodes == {"n1", "n2"}

Other(n) == IF n = "n1" THEN "n2" ELSE "n1"

\* The address of the key that initWallet() wrote on each node.
AddressOf(n) == IF n = "n1" THEN MyAddress ELSE PeerAddress

Links == {<<"n1", "n2">>, <<"n2", "n1">>}

\* socket.send of each of `frames` by node `from`: appended to the direction the
\* frame travels on.
Enqueue(queues, from, frames) ==
    [l \in Links |->
        IF l[1] = from
        THEN LET To(frame) == frame.to = l[2] IN queues[l] \o SelectSeq(frames, To)
        ELSE queues[l]]

ForkInit ==
    /\ blockchain = [n \in Nodes |-> <<genesisBlock>>]
    /\ unspentTxOuts = [n \in Nodes |-> UTxOsAfter(<<genesisBlock>>)]
    /\ transactionPool = [n \in Nodes |-> <<>>]
    /\ sockets = [n \in Nodes |-> <<>>]
    /\ timers = [n \in Nodes |-> 0]
    /\ now = StartTime
    /\ sent = [l \in Links |-> <<>>]
    /\ last = Op("idle", "ok")
    /\ wallet = [n \in Nodes |-> KeyFile(AddressOf(n))]

\* Date.now() advances while the nodes mine.
ForkTick ==
    /\ \A m \in Nodes : sockets[m] = <<>>
    /\ now < StartTime + MaxTicks * ClockStep
    /\ now' = now + ClockStep
    /\ UNCHANGED <<wallet, blockchain, unspentTxOuts, transactionPool, sockets, timers,
                   sent, last>>

\* POST /mine on node n, before the nodes are connected: generateBlock().
ForkMine(n) ==
    /\ \A m \in Nodes : sockets[m] = <<>>
    /\ Len(blockchain[n]) <= MaxFork
    /\ LET r == generateBlock(wallet[n], blockchain[n], unspentTxOuts[n], transactionPool[n],
                              sockets[n], now)
       IN /\ blockchain' = [blockchain EXCEPT ![n] = r.chain]
          /\ unspentTxOuts' = [unspentTxOuts EXCEPT ![n] = r.unspentTxOuts]
          /\ sent' = Enqueue(sent, n, r.sent)
    /\ UNCHANGED <<wallet, transactionPool, sockets, timers, now, last>>

\* initConnection on node n for the socket to the other node: on n1 when the
\* socket it dialed opens, on n2 when the connection comes in.  Both nodes have
\* extended their chain by then.
ForkInitConnection(n) ==
    /\ sockets[n] = <<>>
    /\ \A m \in Nodes : Len(blockchain[m]) > 1
    /\ sockets' = [sockets EXCEPT ![n] = Append(@, Other(n))]
    /\ timers' = [timers EXCEPT ![n] = @ + 1]
    /\ sent' = Enqueue(sent, n, sendMessage(Other(n), queryChainLengthMsg))
    /\ UNCHANGED <<wallet, blockchain, unspentTxOuts, transactionPool, now, last>>

\* The setTimeout callback of initConnection on node n.
ForkPoolQueryTimer(n) ==
    /\ timers[n] > 0
    /\ timers' = [timers EXCEPT ![n] = @ - 1]
    /\ sent' = Enqueue(sent, n, broadcastMessage(queryTransactionPoolMsg, sockets[n]))
    /\ UNCHANGED <<wallet, blockchain, unspentTxOuts, transactionPool, sockets, now, last>>

\* handleMessage on node `to` for the oldest frame in flight from node `from`.
ForkDeliver(from, to) ==
    /\ sent[<<from, to>>] # <<>>
    /\ sockets[to] # <<>>
    /\ LET message == Head(sent[<<from, to>>])
           rest == [sent EXCEPT ![<<from, to>>] = Tail(@)]
       IN IF message.type = RESPONSE_BLOCKCHAIN
          THEN LET r == handleBlockchainResponse(message.data, blockchain[to],
                                                 unspentTxOuts[to], transactionPool[to],
                                                 sockets[to], now)
               IN /\ blockchain' = [blockchain EXCEPT ![to] = r.chain]
                  /\ unspentTxOuts' = [unspentTxOuts EXCEPT ![to] = r.unspentTxOuts]
                  /\ transactionPool' = [transactionPool EXCEPT ![to] = r.pool]
                  /\ sent' = Enqueue(rest, to, r.sent)
          ELSE IF message.type = RESPONSE_TRANSACTION_POOL
          THEN LET r == handleTransactionPoolResponse(message.data, unspentTxOuts[to],
                                                      transactionPool[to], sockets[to])
               IN /\ transactionPool' = [transactionPool EXCEPT ![to] = r.pool]
                  /\ sent' = Enqueue(rest, to, r.sent)
                  /\ UNCHANGED <<blockchain, unspentTxOuts>>
          ELSE /\ sent' = Enqueue(rest, to,
                              sendMessage(from,
                                  IF message.type = QUERY_LATEST
                                  THEN responseLatestMsg(blockchain[to])
                                  ELSE IF message.type = QUERY_ALL
                                  THEN responseChainMsg(blockchain[to])
                                  ELSE responseTransactionPoolMsg(transactionPool[to])))
               /\ UNCHANGED <<blockchain, unspentTxOuts, transactionPool>>
    /\ UNCHANGED <<wallet, sockets, timers, now, last>>

ForkNext ==
    \/ ForkTick
    \/ \E n \in Nodes :
        \/ ForkMine(n)
        \/ ForkInitConnection(n)
        \/ ForkPoolQueryTimer(n)
        \/ ForkDeliver(Other(n), n)

\* Every frame in flight is delivered and every timer fires.
ForkSpec ==
    /\ ForkInit
    /\ [][ForkNext]_vars
    /\ \A n \in Nodes : WF_vars(ForkDeliver(Other(n), n)) /\ WF_vars(ForkPoolQueryTimer(n))

(***************************************************************************)
(* Properties                                                              *)
(***************************************************************************)
\* processTransactions replayed over the blocks of `chain` from position i on,
\* starting from the unspent outputs uTxOs.
RECURSIVE ReplayFrom(_, _, _)
ReplayFrom(chain, i, uTxOs) ==
    IF i > Len(chain) THEN [threw |-> FALSE, unspentTxOuts |-> uTxOs]
    ELSE LET r == processTransactions(TransactionsOf(chain[i]), uTxOs, chain[i].index)
         IN IF r.threw THEN r ELSE ReplayFrom(chain, i + 1, r.unspentTxOuts)

Replay(chain) == ReplayFrom(chain, 1, <<>>)

\* The handlers that end in a call of addBlock, and those that change the chain.
AddBlockOps == {"addBlock", "mine", "mineRaw", "mineTransaction"}
ChainOps == AddBlockOps \cup {"replaceChain"}

\* The transactions of the chain, block after block, and all TxIns of chain and pool.
RECURSIVE ChainTransactions(_)
ChainTransactions(chain) ==
    IF chain = <<>> THEN <<>>
    ELSE ChainTransactions(SubSeq(chain, 1, Len(chain) - 1)) \o chain[Len(chain)].transactions

OutPoint(txIn) == <<txIn.txOutId, txIn.txOutIndex>>

Distinct(txIns) ==
    \A i, j \in 1..Len(txIns) : i < j => OutPoint(txIns[i]) # OutPoint(txIns[j])

\* C1: in every reachable state the live unspentTxOuts equals processTransactions
\* replayed over the blocks of the current chain in order, from the empty list.
C1_UTxOSetIsReplay ==
    /\ ~Replay(blockchain).threw
    /\ Replay(blockchain).unspentTxOuts = unspentTxOuts

\* replaceChain has just installed a peer's chain that carries a spend.
C1_Witness ==
    /\ last = Op("replaceChain", "true")
    /\ \E i \in 1..Len(blockchain) : Len(blockchain[i].transactions) > 1

\* C2: every block on the chain has a hash with at least `difficulty` leading
\* zero bits, `difficulty` being the value stored in the block.
C2_HashMeetsDifficulty ==
    \A i \in 1..Len(blockchain) :
        checkHashDifficulty(blockchain[i].hash, blockchain[i].difficulty)

\* C3: each time the chain changes, the weight of the new chain is strictly
\* greater than the weight of the chain held before.
C3_WeightStrictlyIncreases ==
    [][blockchain' # blockchain =>
           getAccumulatedDifficulty(blockchain') > getAccumulatedDifficulty(blockchain)]_vars

\* The inputs of `transaction` are all in uTxOs and their amounts sum to the sum of
\* its outputs.
Balanced(transaction, uTxOs) ==
    /\ \A i \in 1..Len(transaction.txIns) :
           FindIndex(transaction.txIns[i].txOutId, transaction.txIns[i].txOutIndex, uTxOs) # 0
    /\ TotalTxInValues(transaction, uTxOs) = TotalTxOutValues(transaction)

\* Each transaction after the first of each block, over the unspent outputs left by
\* the blocks before it.
ChainBalanced(chain) ==
    \A i \in 1..Len(chain) : \A k \in 2..Len(chain[i].transactions) :
        Balanced(chain[i].transactions[k], Replay(SubSeq(chain, 1, i - 1)).unspentTxOuts)

\* Each transaction that this step adds to the pool, over the unspent outputs that
\* addToTransactionPool validated it against.
PoolAdmissionBalanced ==
    \A k \in 1..Len(transactionPool') :
        (\A j \in 1..Len(transactionPool) : transactionPool[j] # transactionPool'[k])
            => Balanced(transactionPool'[k], unspentTxOuts)

\* C4: a non-coinbase transaction enters the pool only with inputs that sum, over
\* the unspent outputs it is validated against, to the sum of its outputs; and every
\* non-coinbase transaction of a block on the chain has inputs that sum, over the
\* unspent outputs left by the blocks before it, to the sum of its outputs.
C4_InputsEqualOutputs == []ChainBalanced(blockchain) /\ [][PoolAdmissionBalanced]_vars

\* A peer's transaction has just been admitted to the pool of a node whose chain
\* carries a spend.
C4_Witness ==
    /\ last = Op("transactionPool", "ok")
    /\ transactionPool # <<>>
    /\ \E i \in 1..Len(blockchain) : Len(blockchain[i].transactions) > 1

\* C5: no (txOutId, txOutIndex) pair is referenced by two TxIns taken over all
\* transactions of the chain together with all transactions of the pool.
C5_NoOutPointSpentTwice ==
    Distinct(FlatTxIns(ChainTransactions(blockchain)) \o getTxPoolIns(transactionPool))

\* C6: no (txOutId, txOutIndex) pair is referenced by more than one TxIn of the
\* pool, in two pooled transactions or in one.
C6_PoolInputsDistinct == Distinct(getTxPoolIns(transactionPool))

\* C7: right after a successful addBlock or replaceChain every transaction left in
\* the pool has all its TxIns in the new unspentTxOuts.
C7_PoolUpdatedOnChainChange ==
    (last.op \in ChainOps /\ last.ret = "true") =>
        \A k \in 1..Len(transactionPool) : \A i \in 1..Len(transactionPool[k].txIns) :
            hasTxIn(transactionPool[k].txIns[i], unspentTxOuts)

\* C8: a call of addBlock that returns false or raises leaves the chain, the
\* unspent outputs and the pool as they were before the call.
C8_AddBlockAllOrNothing ==
    [][(last'.op \in AddBlockOps /\ last'.ret \in {"false", "threw"})
           => UNCHANGED <<blockchain, unspentTxOuts, transactionPool>>]_vars

\* addBlock has just raised on a peer's block, on a node that holds more than the
\* genesis block and a pooled transaction.
C8_Witness ==
    /\ last = Op("addBlock", "threw")
    /\ Len(blockchain) > 1
    /\ transactionPool # <<>>

\* C9: every block after the first carries the difficulty that getDifficulty
\* yields on the chain up to the block before it.
C9_DifficultyIsPrescribed ==
    \A i \in 2..Len(blockchain) :
        blockchain[i].difficulty = getDifficulty(SubSeq(blockchain, 1, i - 1))

\* C10: the first transaction of every block on the chain has exactly one TxIn,
\* with txOutId '', an empty signature and txOutIndex equal to the block's index,
\* and exactly one TxOut, of COINBASE_AMOUNT.
C10_CoinbaseShape ==
    \A i \in 1..Len(blockchain) :
        LET coinbase == blockchain[i].transactions[1]
        IN /\ Len(coinbase.txIns) = 1
           /\ coinbase.txIns[1].txOutId = EmptyStr
           /\ coinbase.txIns[1].signature = EmptyStr
           /\ coinbase.txIns[1].txOutIndex = blockchain[i].index
           /\ Len(coinbase.txOuts) = 1
           /\ coinbase.txOuts[1].amount = COINBASE_AMOUNT

\* C11: in every block of the chain the TxIns of all its transactions reference
\* pairwise distinct (txOutId, txOutIndex) pairs, and every TxIn of every
\* transaction after the first references an output that was unspent right before
\* the block was applied.
C11_BlockInputsDistinctAndUnspent ==
    \A i \in 1..Len(blockchain) :
        LET before == Replay(SubSeq(blockchain, 1, i - 1)).unspentTxOuts
        IN /\ Distinct(FlatTxIns(blockchain[i].transactions))
           /\ \A k \in 2..Len(blockchain[i].transactions) :
                  \A n \in 1..Len(blockchain[i].transactions[k].txIns) :
                      hasTxIn(blockchain[i].transactions[k].txIns[n], before)

\* addBlock has just appended a peer's block that carries a spend.
C11_Witness ==
    /\ last = Op("addBlock", "true")
    /\ Len(Last(blockchain).transactions) > 1

\* The position in `chain` of the block that carries `index`.
FindBlockIndex(chain, index) == CHOOSE i \in 1..Len(chain) : chain[i].index = index

\* A candidate that replaceChain has to refuse on a node holding `chain`: its first
\* block is not the node's genesis block, or one of its later blocks fails
\* validateNewBlock against the block before it, or the replay of its transactions
\* from the empty list raises, or it is not longer than `chain`.
Refusable(newChain, chain, dateNow) ==
    \/ newChain[1] # chain[1]
    \/ \E i \in 2..Len(newChain) : ~validateNewBlock(newChain[i], newChain[i - 1], dateNow)
    \/ Replay(newChain).threw
    \/ Len(newChain) <= Len(chain)

\* C12: replaceChain called with a candidate whose block 0 differs from the local
\* genesis block, or with a later block that fails validation against its
\* predecessor, or that is not strictly longer than the local chain (heavier or
\* not), returns false or raises, leaves chain, unspent outputs and pool as they
\* were and sends nothing.
C12_ReplaceChainRefuses ==
    [][(last'.op = "replaceChain" /\ Refusable(last'.newChain, blockchain, now))
           => /\ last'.ret \in {"false", "threw"}
              /\ UNCHANGED <<blockchain, unspentTxOuts, transactionPool>>
              /\ sent' = <<>>]_vars

\* replaceChain has just refused a valid candidate that is heavier than the local
\* chain and not longer, on a node with a pooled transaction and a peer.
C12_Witness ==
    /\ last.op = "replaceChain"
    /\ last.ret = "false"
    /\ validateChain(last.newChain, blockchain, now).ret = "ok"
    /\ getAccumulatedDifficulty(last.newChain) > getAccumulatedDifficulty(blockchain)
    /\ Len(last.newChain) <= Len(blockchain)
    /\ transactionPool # <<>>
    /\ sockets # <<>>

\* The transactions of `pool`, in their order, all of whose TxIns reference an
\* output of uTxOs.
Spendable(pool, uTxOs) ==
    LET Known(txIn) == \E k \in 1..Len(uTxOs) :
                           OutPoint(txIn) = <<uTxOs[k].txOutId, uTxOs[k].txOutIndex>>
        AllKnown(tx) == \A i \in 1..Len(tx.txIns) : Known(tx.txIns[i])
    IN SelectSeq(pool, AllKnown)

\* One RESPONSE_BLOCKCHAIN frame to each connected peer, carrying only `block`.
LatestBlockToAll(block, socks) ==
    [i \in 1..Len(socks) |->
        [to |-> socks[i], type |-> RESPONSE_BLOCKCHAIN, data |-> <<block>>]]

\* C13: when replaceChain accepts a candidate, afterwards the chain is the candidate,
\* the unspent outputs are those derived by replaying the candidate from the empty
\* list, the pool holds, in their previous order, exactly the previously pooled
\* transactions all of whose TxIns are among these outputs, and one
\* RESPONSE_BLOCKCHAIN frame carrying only the new last block goes to every
\* connected peer.
C13_ReplaceChainInstalls ==
    [][(last'.op = "replaceChain" /\ last'.ret = "true")
           => /\ blockchain' = last'.newChain
              /\ unspentTxOuts' = Replay(last'.newChain).unspentTxOuts
              /\ transactionPool' =
                     Spendable(transactionPool, Replay(last'.newChain).unspentTxOuts)
              /\ sent' = LatestBlockToAll(Last(last'.newChain), sockets)]_vars

\* replaceChain has just installed a candidate whose last block carries a spend, on
\* a node with two peers that keeps a pooled transaction.
C13_Witness ==
    /\ last.op = "replaceChain"
    /\ last.ret = "true"
    /\ Len(Last(blockchain).transactions) > 1
    /\ Len(transactionPool) = 1
    /\ Len(sent) = 2

\* No TxIn of a transaction of `pool` references the pair of a TxIn of `tx`.
NoPoolConflict(tx, pool) ==
    \A i \in 1..Len(tx.txIns) : \A k \in 1..Len(pool) : \A n \in 1..Len(pool[k].txIns) :
        OutPoint(tx.txIns[i]) # OutPoint(pool[k].txIns[n])

\* C14: addToTransactionPool(tx, unspentTxOuts) appends tx at the end of the pool
\* exactly when validateTransaction(tx, unspentTxOuts) holds and no TxIn of a pooled
\* transaction has the (txOutId, txOutIndex) of a TxIn of tx; otherwise it raises
\* and the pool is unchanged.
C14_PoolAdmission ==
    [][last'.op = "addToTransactionPool"
           => IF /\ validateTransaction(last'.transaction, unspentTxOuts) = "true"
                 /\ NoPoolConflict(last'.transaction, transactionPool)
              THEN /\ last'.ret = "ok"
                   /\ transactionPool' = Append(transactionPool, last'.transaction)
              ELSE /\ last'.ret = "threw"
                   /\ transactionPool' = transactionPool]_vars

\* addToTransactionPool has just appended a transaction to a pool that held one.
C14_Witness ==
    /\ last.op = "addToTransactionPool"
    /\ last.ret = "ok"
    /\ Len(transactionPool) > 1
    /\ Last(transactionPool) = last.transaction

\* C15: validateTimestamp accepts a new block exactly when
\* previous.timestamp - 60000 ms < new.timestamp and new.timestamp - 60000 ms < now:
\* a block stamped 59999 ms before its predecessor is accepted and a block
\* stamped 60001 ms after the clock of the validating node is refused.
C15_TimestampWithinOneMinute ==
    [][last'.op = "validateTimestamp"
           => (last'.ret = "true"
                   <=> /\ last'.previousBlock.timestamp - 60000 < last'.newBlock.timestamp
                       /\ last'.newBlock.timestamp - 60000 < now)]_vars

\* The difficulty the retarget rule names for the block after the last block of
\* `chain`, measured from the block DIFFICULTY_ADJUSTMENT_INTERVAL indices back.
RetargetRule(chain) ==
    LET lastBlock == Last(chain)
        N == lastBlock.index
    IN IF N % DIFFICULTY_ADJUSTMENT_INTERVAL = 0 /\ N # 0
       THEN LET base == chain[FindBlockIndex(chain, N - DIFFICULTY_ADJUSTMENT_INTERVAL)]
                takenMs == lastBlock.timestamp - base.timestamp
            IN IF takenMs < 50 * 1000 THEN base.difficulty + 1
               ELSE IF takenMs > 200 * 1000 THEN base.difficulty - 1
               ELSE base.difficulty
       ELSE lastBlock.difficulty

\* C16: when the last block has index N with N % 10 = 0 and N # 0, the difficulty
\* chosen for the next block is that of the block of index N - 10, plus one if
\* less than 50 s lie between the two timestamps, minus one if more than 200 s,
\* unchanged otherwise; for every other N it is the last block's difficulty.
C16_RetargetFromIntervalBack == getDifficulty(blockchain) = RetargetRule(blockchain)

\* Both nodes have run initConnection.
Connected == \A n \in Nodes : sockets[n] # <<>>

\* Every unspent output of node n was created by the coinbase of a block of the
\* chain that n holds (the nodes of the two-node runs hold coinbases only).
OwnCoinbasesOnly(n) ==
    \A k \in 1..Len(unspentTxOuts[n]) :
        \E i \in 1..Len(blockchain[n]) :
            unspentTxOuts[n][k].txOutId = blockchain[n][i].transactions[1].id

\* C17: two nodes that share the genesis block, have each extended their chain on
\* their own and are then connected, eventually hold the same chain, with delivery
\* of every frame and no further mining; that chain is the heavier one (no node
\* ever moves to a lighter chain), and no unspent output of either node then
\* stems from a coinbase of the other chain.
C17_ForkResolution ==
    /\ Connected ~> /\ blockchain["n1"] = blockchain["n2"]
                    /\ \A n \in Nodes : OwnCoinbasesOnly(n)
    /\ [][Connected => \A n \in Nodes : getAccumulatedDifficulty(blockchain'[n])
                                           >= getAccumulatedDifficulty(blockchain[n])]_vars

\* A transaction created by this node's wallet: every TxIn is signed with the
\* node's key.
IsLocal(tx) ==
    /\ tx.txIns # <<>>
    /\ \A i \in 1..Len(tx.txIns) : tx.txIns[i].signature = Sign(MyAddress, tx.id)

\* Whatever the payment, createTransaction on the current pool and unspent outputs
\* raises or yields a transaction none of whose TxIns is referenced in the pool.
CreateAvoidsPool ==
    \A p \in WalletPayments :
        LET created == createTransaction(p.address, p.amount, MyAddress, transactionPool,
                                         unspentTxOuts)
        IN ~created.threw => NoPoolConflict(created.transaction, transactionPool)

\* C18: createTransaction never selects an unspent output that a TxIn of the
\* current pool references, so no two pooled transactions created by the node
\* spend the same output; and a transaction that spends an output already spent by
\* a pooled transaction is refused by addToTransactionPool, the pool staying as it
\* was.
C18_NoLocalDoubleSpend ==
    /\ [](CreateAvoidsPool /\ Distinct(getTxPoolIns(SelectSeq(transactionPool, IsLocal))))
    /\ [][(last'.op = "addToTransactionPool"
               /\ ~NoPoolConflict(last'.transaction, transactionPool))
              => last'.ret = "threw" /\ transactionPool' = transactionPool]_vars

\* The pool holds two transactions created by the node, and a transaction that
\* spends an output spent in the pool has just been refused.
C18_Witness ==
    /\ Len(SelectSeq(transactionPool, IsLocal)) >= 2
    /\ last.op = "addToTransactionPool"
    /\ last.ret = "threw"
    /\ ~NoPoolConflict(last.transaction, transactionPool)
    /\ validateTransaction(last.transaction, unspentTxOuts) = "true"

\* The total amount of the outputs of `address` in uTxOs that no TxIn of `pool`
\* references.
Available(address, uTxOs, pool) ==
    LET Free(uTxO) ==
            /\ uTxO.address = address
            /\ \A k \in 1..Len(pool) : \A n \in 1..Len(pool[k].txIns) :
                   OutPoint(pool[k].txIns[n]) # <<uTxO.txOutId, uTxO.txOutIndex>>
        free == SelectSeq(uTxOs, Free)
    IN SumSeq([i \in 1..Len(free) |-> free[i].amount])

\* C19: when the node's unspent outputs that no pooled TxIn references amount to
\* less than the requested amount, sendTransaction raises (createTransaction finds
\* not enough coins), pool, chain and unspent outputs stay as they were and no
\* RESPONSE_TRANSACTION_POOL frame is sent.
C19_InsufficientFunds ==
    [][(/\ last'.op = "sendTransaction"
        /\ Available(MyAddress, unspentTxOuts, transactionPool) < last'.payment.amount)
           => /\ last'.ret = "threw"
              /\ createTransaction(last'.payment.address, last'.payment.amount, MyAddress,
                                    transactionPool, unspentTxOuts).threw
              /\ UNCHANGED <<blockchain, unspentTxOuts, transactionPool>>
              /\ sent' = <<>>]_vars

\* The state of a node right after start-up: the chain is the genesis block alone,
\* the unspent outputs are the genesis output, the pool is empty.
FreshNode ==
    /\ blockchain = <<genesisBlock>>
    /\ unspentTxOuts = UTxOsAfter(<<genesisBlock>>)
    /\ Len(unspentTxOuts) = 1
    /\ unspentTxOuts[1].amount = COINBASE_AMOUNT
    /\ transactionPool = <<>>

\* C20: on a fresh node (chain = [genesis], unspent outputs = the single genesis
\* output of 50, empty pool) a mine command appends exactly one block, of index 1,
\* whose only transaction is a coinbase paying 50 to the node's own address;
\* afterwards the balance of the node's address is 50 higher and the unspent
\* output list has exactly one more entry.
C20_FreshMine ==
    [][(FreshNode /\ last'.op = "mine")
          => /\ last'.ret = "true"
             /\ Len(blockchain') = 2
             /\ blockchain'[1] = genesisBlock
             /\ blockchain'[2].index = 1
             /\ Len(blockchain'[2].transactions) = 1
             /\ LET cb == blockchain'[2].transactions[1]
                IN /\ Len(cb.txIns) = 1
                   /\ cb.txIns[1].txOutId = EmptyStr
                   /\ cb.txIns[1].signature = EmptyStr
                   /\ cb.txOuts = <<TxOut(MyAddress, COINBASE_AMOUNT)>>
             /\ getBalance(MyAddress, unspentTxOuts')
                  = getBalance(MyAddress, unspentTxOuts) + COINBASE_AMOUNT
             /\ Len(unspentTxOuts') = Len(unspentTxOuts) + 1
             /\ transactionPool' = <<>>]_vars

C20_Witness ==
    /\ last = Op("mine", "true")
    /\ Len(blockchain) = 2
    /\ blockchain[2].index = 1
    /\ blockchain[2].transactions = <<getCoinbaseTransaction(MyAddress, 1)>>
    /\ getBalance(MyAddress, unspentTxOuts) = COINBASE_AMOUNT
    /\ Len(unspentTxOuts) = 2
    /\ transactionPool = <<>>

\* C21: every TxOut of every transaction accepted into the pool has an amount
\* greater than zero, and a transaction with a zero or negative output amount is
\* rejected by validateTransaction (so that addToTransactionPool raises on it).
C21_AmountsPositive ==
    [][last'.op = "addToTransactionPool"
          => /\ \A i \in 1..Len(transactionPool') :
                   \A j \in 1..Len(transactionPool'[i].txOuts) :
                       transactionPool'[i].txOuts[j].amount > 0
             /\ (\E j \in 1..Len(last'.transaction.txOuts) :
                       last'.transaction.txOuts[j].amount <= 0)
                  => /\ validateTransaction(last'.transaction, unspentTxOuts) # "true"
                     /\ last'.ret = "threw"]_vars

\* C22: in every reachable state the chain is non-empty, its first block is the
\* fixed genesis block, the block at position i has index i, and from the second
\* block on previousHash is the hash of the block before.
C22_ChainLinked ==
    /\ blockchain # <<>>
    /\ blockchain[1] = genesisBlock
    /\ \A i \in 1..Len(blockchain) :
          /\ blockchain[i].index = i - 1
          /\ i > 1 => blockchain[i].previousHash = blockchain[i - 1].hash

\* A peer's chain of full length installed by replaceChain.
C22_Witness ==
    /\ last = Op("replaceChain", "true")
    /\ Len(blockchain) = MaxChain
    /\ getLastBlock(blockchain).index = MaxChain - 1
    /\ blockchain[1] = genesisBlock
    /\ blockchain[2].transactions[1].txOuts[1].address = PeerAddress

\* What `last.op` holds after handleMessage ran on an inbound frame.
FrameOps ==
    {"empty", "structure", "none", "addBlock", "queryAll", "replaceChain",
     "transactionPool", "query", "invalid"}

\* C23: whatever frame a peer sends (no JSON, an unknown type, RESPONSE_BLOCKCHAIN
\* with an empty array or a malformed block, a block or chain that fails
\* validation, a pool with invalid transactions), handleMessage runs to its end
\* with one of its outcomes, an exception included, the peer set stays as it was,
\* and when the frame was refused (false, an exception, or nothing to validate)
\* the chain and the unspent outputs stay as they were.
C23_FramesNeverCorrupt ==
    [][last'.op \in FrameOps
          => /\ last'.ret \in {"ok", "true", "false", "threw"}
             /\ sockets' = sockets
             /\ (\/ last'.ret \in {"false", "threw"}
                 \/ last'.op \in {"empty", "structure", "invalid"})
                  => UNCHANGED <<blockchain, unspentTxOuts>>]_vars

\* A peer's chain whose last block was refused, on a node that holds a block of
\* its own and has two peers connected.
C23_Witness ==
    /\ last.op = "replaceChain"
    /\ last.ret \in {"false", "threw"}
    /\ Len(blockchain) = 2
    /\ Len(sockets) = 2
    /\ Len(unspentTxOuts) = 2

\* The step is a call of handleBlockchainResponse on an array whose last element
\* carries an index and a previousHash.
ComparableResponse ==
    /\ Idle
    /\ "receivedBlocks" \in DOMAIN last'
    /\ last'.receivedBlocks # <<>>
    /\ {"index", "previousHash"} \subseteq DOMAIN Last(last'.receivedBlocks)

\* C24: on RESPONSE_BLOCKCHAIN whose last block r has r.index > l.index and
\* r.previousHash = l.hash (l the local last block) the node attempts addBlock(r);
\* when that succeeds the chain grows by exactly r and one RESPONSE_BLOCKCHAIN
\* frame carrying only the new last block goes to every connected peer; when it
\* does not, the chain stays as it was and nothing is sent.
C24_LinkingBlockAppended ==
    [][LET r == Last(last'.receivedBlocks)
           l == getLastBlock(blockchain)
           a == addBlock(r, blockchain, unspentTxOuts, now)
       IN (ComparableResponse /\ r.index > l.index /\ r.previousHash = l.hash)
             => /\ last'.op \in {"addBlock", "structure"}
                /\ last'.op = "addBlock" => last'.ret = a.ret
                /\ last'.op = "structure" => a.ret = "false"
                /\ IF a.ret = "true"
                   THEN /\ blockchain' = Append(blockchain, r)
                        /\ unspentTxOuts' = a.unspentTxOuts
                        /\ sent' = LatestBlockToAll(r, sockets)
                   ELSE /\ UNCHANGED <<blockchain, unspentTxOuts>>
                        /\ sent' = <<>>]_vars

\* A linking block that came last in an array of several blocks was appended as
\* the third block and announced to two peers.
C24_Witness ==
    /\ last.op = "addBlock"
    /\ last.ret = "true"
    /\ Len(last.receivedBlocks) > 1
    /\ Len(blockchain) = 3
    /\ Len(sockets) = 2
    /\ sent = LatestBlockToAll(blockchain[3], sockets)

\* One QUERY_ALL frame to each connected peer.
QueryAllToAll(socks) ==
    [i \in 1..Len(socks) |-> [to |-> socks[i], type |-> QUERY_ALL, data |-> <<>>]]

\* C25: on RESPONSE_BLOCKCHAIN whose last block r has r.index > l.index but
\* r.previousHash # l.hash: when exactly one block was received, QUERY_ALL goes to
\* every connected peer and chain, unspent outputs and pool stay as they were;
\* when more than one block was received, the node calls replaceChain on the
\* received array and sends no QUERY_ALL.
C25_NonLinkingBlock ==
    [][LET rb == last'.receivedBlocks
           r == Last(rb)
           l == getLastBlock(blockchain)
           rc == replaceChain(rb, blockchain, unspentTxOuts, transactionPool, sockets, now)
       IN (/\ ComparableResponse
           /\ validateBlockStructure(r)
           /\ r.index > l.index
           /\ r.previousHash # l.hash)
             => IF Len(rb) = 1
                THEN /\ last'.op = "queryAll"
                     /\ sent' = QueryAllToAll(sockets)
                     /\ UNCHANGED <<blockchain, unspentTxOuts, transactionPool>>
                ELSE /\ last'.op = "replaceChain"
                     /\ last'.ret = rc.ret
                     /\ blockchain' = rc.chain
                     /\ unspentTxOuts' = rc.unspentTxOuts
                     /\ transactionPool' = rc.pool
                     /\ sent' = rc.sent
                     /\ \A k \in 1..Len(sent') : sent'[k].type # QUERY_ALL]_vars

\* A node with a block of its own and two peers received the single last block
\* of a longer chain and asked both peers for their chains.
C25_Witness ==
    /\ last.op = "queryAll"
    /\ Len(last.receivedBlocks) = 1
    /\ Len(blockchain) = 2
    /\ last.receivedBlocks[1].index = 2
    /\ Len(sockets) = 2
    /\ sent = QueryAllToAll(sockets)

\* C26: on RESPONSE_BLOCKCHAIN whose last block r has r.index <= l.index (l the
\* local last block) the node does nothing: chain, unspent outputs, pool and peer
\* set stay as they were and no frame is sent.
C26_NotAheadNoAction ==
    [][(ComparableResponse
        /\ Last(last'.receivedBlocks).index <= getLastBlock(blockchain).index)
          => /\ last'.op \in {"none", "structure"}
             /\ last'.ret = "ok"
             /\ UNCHANGED <<blockchain, unspentTxOuts, transactionPool, sockets>>
             /\ sent' = <<>>]_vars

\* A node with two blocks, a pooled transaction and two peers received another
\* chain of two blocks, whose last block differs from its own, and ignored it.
C26_Witness ==
    /\ last.op = "none"
    /\ Len(last.receivedBlocks) = 2
    /\ Len(blockchain) = 2
    /\ Last(last.receivedBlocks) # getLastBlock(blockchain)
    /\ Last(last.receivedBlocks).index = getLastBlock(blockchain).index
    /\ transactionPool # <<>>
    /\ Len(sockets) = 2
    /\ sent = <<>>

\* C27: a QUERY_LATEST, QUERY_ALL or QUERY_TRANSACTION_POOL frame produces exactly
\* one reply, on the socket it arrived on: RESPONSE_BLOCKCHAIN with the single
\* current last block, RESPONSE_BLOCKCHAIN with the whole current chain, and
\* RESPONSE_TRANSACTION_POOL with the whole current pool; chain, unspent outputs,
\* pool and peer set stay as they were.
C27_QueryReplies ==
    [][last'.op = "query"
          => /\ last'.socket \in SocketSet
             /\ sent' = << [to |-> last'.socket,
                            type |-> IF last'.type = QUERY_TRANSACTION_POOL
                                     THEN RESPONSE_TRANSACTION_POOL
                                     ELSE RESPONSE_BLOCKCHAIN,
                            data |-> IF last'.type = QUERY_LATEST
                                     THEN <<blockchain[Len(blockchain)]>>
                                     ELSE IF last'.type = QUERY_ALL THEN blockchain
                                     ELSE transactionPool] >>
             /\ UNCHANGED <<blockchain, unspentTxOuts, transactionPool, sockets>>]_vars

\* QUERY_ALL from the second of two peers, answered with a chain of three blocks.
C27_Witness ==
    /\ last.op = "query"
    /\ last.type = QUERY_ALL
    /\ Len(sockets) = 2
    /\ last.socket = sockets[2]
    /\ Len(blockchain) = 3
    /\ sent = <<[to |-> sockets[2], type |-> RESPONSE_BLOCKCHAIN, data |-> blockchain]>>

\* Admission of each received transaction on its own: a transaction that
\* addToTransactionPool refuses is skipped and the ones after it are still tried.
RECURSIVE AdmitEach(_, _, _)
AdmitEach(receivedTransactions, uTxOs, pool) ==
    IF receivedTransactions = <<>> THEN pool
    ELSE LET r == addToTransactionPool(Head(receivedTransactions), uTxOs, pool)
         IN AdmitEach(Tail(receivedTransactions), uTxOs, IF r.threw THEN pool ELSE r.pool)

\* C28: on RESPONSE_TRANSACTION_POOL every received transaction is tried on its
\* own: a refused transaction does not stop the ones after it, so that every
\* received transaction that is admissible at its turn ends up in the pool.
C28_EachTransactionTried ==
    [][last'.op = "transactionPool"
          => transactionPool' = AdmitEach(last'.receivedTransactions, unspentTxOuts,
                                          transactionPool)]_vars

\* One RESPONSE_TRANSACTION_POOL frame to each connected peer, carrying `pool`.
PoolToAll(pool, socks) ==
    [i \in 1..Len(socks) |->
        [to |-> socks[i], type |-> RESPONSE_TRANSACTION_POOL, data |-> pool]]

\* C29: on RESPONSE_TRANSACTION_POOL the node broadcasts its pool if and only if
\* at least one received transaction was admitted: it does when one was admitted
\* although another was refused, and it sends nothing when none was admitted,
\* the empty array included.
C29_BroadcastIffAdmitted ==
    [][last'.op = "transactionPool"
          => sent' = IF transactionPool' # transactionPool
                     THEN PoolToAll(transactionPool', sockets)
                     ELSE <<>>]_vars

\* C30: when a session is set up the node sends QUERY_LATEST on it and, after the
\* fixed delay, QUERY_TRANSACTION_POOL on that same session; setting up one
\* session causes no query on any other session.  Each pending timer belongs to
\* one session, so that a timer that fires writes at most one frame, and that
\* frame goes to a session that is still connected.
C30_QueriesOnOwnSession ==
    [][/\ last'.op = "initConnection"
            => sent' = <<[to |-> sockets'[Len(sockets')], type |-> QUERY_LATEST,
                          data |-> <<>>]>>
       /\ last'.op = "poolQueryTimer"
            => /\ Len(sent') <= 1
               /\ \A k \in 1..Len(sent') :
                     /\ sent'[k].type = QUERY_TRANSACTION_POOL
                     /\ sent'[k].to \in SocketSet]_vars

\* C31: the peer set holds exactly the sessions that became active (an outbound
\* socket that opened, an inbound connection) and have not closed or failed
\* since: a session enters the set once, when initConnection runs on it; an
\* outbound socket that fails before opening does not enter it; a close or an
\* error removes the session and nothing else; no other step changes the set;
\* and every frame written goes to a session that is in the set.
C31_PeerSetIsActiveSessions ==
    [][/\ last'.op = "initConnection"
            => \E socket \in Peers \ SocketSet : sockets' = Append(sockets, socket)
       /\ last'.op = "connectError" => sockets' = sockets
       /\ last'.op = "closeConnection"
            => \E socket \in SocketSet :
                  /\ {sockets'[i] : i \in 1..Len(sockets')} = SocketSet \ {socket}
                  /\ Len(sockets') = Len(sockets) - 1
       /\ last'.op \notin {"initConnection", "closeConnection"} => sockets' = sockets
       /\ Cardinality(SocketSet) = Len(sockets)
       /\ \A k \in 1..Len(sent') :
             sent'[k].to \in {sockets'[i] : i \in 1..Len(sockets')}]_vars

\* The first of two sessions has closed while the timer of the second is pending.
C31_Witness ==
    /\ last = Op("closeConnection", "ok")
    /\ sockets = <<"p2">>
    /\ timers = 1
    /\ sent = <<>>

\* C32: a broadcast attempts one send to every session that is in the peer set;
\* a send that fails is logged, does not keep the remaining sessions from being
\* sent to, is not tried again, and does not remove the session from the set.
C32_BroadcastReachesAll ==
    [][last'.op = "broadcastMessage"
          => LET Failed(frame) == \E k \in 1..Len(last'.failed) : last'.failed[k] = frame.to
                 Delivered(frame) == ~Failed(frame)
             IN /\ last'.attempts = sockets
                /\ sent' = SelectSeq(broadcastMessage(last'.message, sockets), Delivered)
                /\ Len(sent') + Len(last'.failed) = Len(sockets)
                /\ sockets' = sockets]_vars

\* The send to the first of two sessions failed and the second was still sent to.
C32_Witness ==
    /\ last.op = "broadcastMessage"
    /\ sockets = <<"p1", "p2">>
    /\ last.failed = <<"p1">>
    /\ last.attempts = <<"p1", "p2">>
    /\ Len(sent) = 1
    /\ sent[1].to = "p2"

\* The node's unspent outputs that no TxIn of the pool references, in the order of
\* the unspent list.
SpendableOutputs(uTxOs, pool) ==
    LET Free(uTxO) ==
            /\ uTxO.address = MyAddress
            /\ \A k \in 1..Len(pool) : \A n \in 1..Len(pool[k].txIns) :
                   OutPoint(pool[k].txIns[n]) # <<uTxO.txOutId, uTxO.txOutIndex>>
    IN SelectSeq(uTxOs, Free)

\* transaction is the payment of `amount` to `address` built from the first n
\* outputs of `spendable`.
BuiltFromFirst(transaction, n, spendable, address, amount) ==
    LET accumulated == PrefixAmount(spendable, n)
    IN /\ accumulated >= amount
       /\ PrefixAmount(spendable, n - 1) < amount
       /\ Len(transaction.txIns) = n
       /\ \A i \in 1..n :
              /\ OutPoint(transaction.txIns[i]) = <<spendable[i].txOutId, spendable[i].txOutIndex>>
              /\ transaction.txIns[i].signature = Sign(MyAddress, transaction.id)
       /\ transaction.txOuts =
              IF accumulated = amount THEN <<TxOut(address, amount)>>
              ELSE <<TxOut(address, amount), TxOut(MyAddress, accumulated - amount)>>
       /\ transaction.id = getTransactionId(transaction)

\* C33: for a valid receiver address and an amount that the node's spendable
\* unspent outputs cover, createTransaction returns a transaction with one TxIn
\* for each output selected greedily in the order of the list (stopping as soon
\* as the accumulated amount reaches the requested one), whose TxOuts are
\* [receiver, amount] followed by the change [own address, accumulated - amount]
\* only when the change is not zero, whose id is the derived id, and which
\* addToTransactionPool accepts against the same unspent outputs and pool.
C33_CreatedTransactionAccepted ==
    /\ [](\A p \in WalletPayments :
            (/\ validateAddress(p.address)
             /\ Available(MyAddress, unspentTxOuts, transactionPool) >= p.amount)
               => LET created == createTransaction(p.address, p.amount, MyAddress,
                                                   transactionPool, unspentTxOuts)
                      spendable == SpendableOutputs(unspentTxOuts, transactionPool)
                      added == addToTransactionPool(created.transaction, unspentTxOuts,
                                                    transactionPool)
                  IN /\ ~created.threw
                     /\ \E n \in 1..Len(spendable) :
                            BuiltFromFirst(created.transaction, n, spendable, p.address, p.amount)
                     /\ ~added.threw
                     /\ added.pool = Append(transactionPool, created.transaction))
    /\ [][(/\ last'.op = "sendTransaction"
            /\ validateAddress(last'.payment.address)
            /\ Available(MyAddress, unspentTxOuts, transactionPool) >= last'.payment.amount)
              => /\ last'.ret = "ok"
                 /\ transactionPool' =
                        Append(transactionPool,
                               createTransaction(last'.payment.address, last'.payment.amount,
                                                 MyAddress, transactionPool,
                                                 unspentTxOuts).transaction)]_vars

\* The update rule one transaction at a time, in block order: remove every unspent
\* output that a TxIn of the transaction references, then add one unspent output
\* for each of its TxOuts.
RECURSIVE SequentialUpdate(_, _)
SequentialUpdate(transactions, uTxOs) ==
    IF transactions = <<>> THEN uTxOs
    ELSE LET transaction == Head(transactions)
             Kept(uTxO) == ~IsConsumed(uTxO, transaction.txIns)
         IN SequentialUpdate(Tail(transactions),
                             SelectSeq(uTxOs, Kept) \o NewUnspentOf(transaction))

\* C34: for every list of transactions that passes the validation of a block, the
\* unspent outputs the node holds after the block (all consumed outputs removed,
\* then all new outputs appended) are those of the rule applied one transaction
\* at a time in block order.
C34_BatchIsSequential ==
    [][(last'.op = "mineRaw" /\ last'.ret = "true")
          => LET sequential == SequentialUpdate(last'.transactions, unspentTxOuts)
             IN {unspentTxOuts'[i] : i \in 1..Len(unspentTxOuts')}
                    = {sequential[i] : i \in 1..Len(sequential)}]_vars

\* Some TxIn of `transactions` names uTxO and carries a signature of its
\* transaction's id that verifies against the address of uTxO.
SpentWithSignature(uTxO, transactions) ==
    \E t \in 1..Len(transactions) : \E i \in 1..Len(transactions[t].txIns) :
        LET txIn == transactions[t].txIns[i]
        IN /\ OutPoint(txIn) = <<uTxO.txOutId, uTxO.txOutIndex>>
           /\ Verify(uTxO.address, transactions[t].id, txIn.signature) = "true"

\* C35: an unspent output leaves the live set only through an accepted block that
\* holds a TxIn naming it with a signature that verifies against the output's
\* address; no accepted block removes an unspent output through an unsigned
\* TxIn, that of the coinbase included.
C35_RemovedOnlyWhenSigned ==
    [][\A k \in 1..Len(unspentTxOuts) :
          unspentTxOuts[k] \notin {unspentTxOuts'[i] : i \in 1..Len(unspentTxOuts')}
             => /\ last'.op = "mineRaw"
                /\ last'.ret = "true"
                /\ SpentWithSignature(unspentTxOuts[k], last'.transactions)]_vars

\* C36: the coin supply is conserved: the amounts of all unspent outputs sum to
\* COINBASE_AMOUNT times the number of blocks of the chain.
C36_SupplyConserved ==
    SumSeq([i \in 1..Len(unspentTxOuts) |-> unspentTxOuts[i].amount])
        = COINBASE_AMOUNT * Len(blockchain)

\* No pool query is pending or in flight and no pool response is in flight.
PoolQuiet ==
    /\ \A n \in Nodes : timers[n] = 0
    /\ \A l \in Links : \A k \in 1..Len(sent[l]) :
           sent[l][k].type \notin {QUERY_TRANSACTION_POOL, RESPONSE_TRANSACTION_POOL}

\* C37: pool gossip quiesces: once two nodes are connected and no further command
\* is issued, whatever their pools hold (both empty included), the exchange of
\* QUERY_TRANSACTION_POOL and RESPONSE_TRANSACTION_POOL frames that the connection
\* starts eventually stops.
C37_PoolGossipQuiesces == Connected ~> []PoolQuiet

\* The last block of the chain is the one POST /mine builds from the present pool,
\* which holds a transaction: the node has mined its pooled transactions.
MinedFromPool ==
    /\ transactionPool # <<>>
    /\ getLastBlock(blockchain).transactions
           = <<getCoinbaseTransaction(MyAddress, getLastBlock(blockchain).index)>>
                 \o transactionPool

\* C38: local mining is always possible: POST /mine builds the block [coinbase
\* for the last index + 1] followed by the whole pool and addBlock accepts it; in
\* particular, as stated here, a mine right after a mine that took the pooled
\* transactions succeeds.
C38_MineAfterMineSucceeds ==
    [][(last'.op = "mine" /\ MinedFromPool)
          => /\ last'.ret = "true"
             /\ Len(blockchain') = Len(blockchain) + 1
             /\ getLastBlock(blockchain').transactions
                    = <<getCoinbaseTransaction(MyAddress, getLastBlock(blockchain).index + 1)>>
                          \o transactionPool]_vars

\* C39: no two entries of the unspent outputs have the same (txOutId, txOutIndex)
\* pair: a TxIn names at most one unspent output.
C39_OutPointsUnique ==
    \A i, j \in 1..Len(unspentTxOuts) :
        (/\ unspentTxOuts[i].txOutId = unspentTxOuts[j].txOutId
         /\ unspentTxOuts[i].txOutIndex = unspentTxOuts[j].txOutIndex) => i = j

\* C40: on every chain the node reaches by mining from the genesis block, whatever
\* the timestamps of its blocks, getDifficulty names a difficulty of at least 0 for
\* the next block, so that findBlock evaluates the proof-of-work test with a
\* number of zero bits that is not negative and returns a block.
C40_DifficultyNeverNegative ==
    /\ getDifficulty(blockchain) >= 0
    /\ ~findBlock(getLastBlock(blockchain).index + 1, getLastBlock(blockchain).hash, now,
                  JsArray(<<getCoinbaseTransaction(MyAddress,
                                                   getLastBlock(blockchain).index + 1)>>),
                  getDifficulty(blockchain)).threw

====
